---- MODULE Spec2Model ----
(***************************************************************************)
(* Temporal-integrity pipeline of the NCAA basketball betting model:       *)
(*   - walk-forward (expanding window) backtests                           *)
(*       ml/walkforward_backtest.py, ml/walkforward_backtest_odds.py       *)
(*   - rolling in-season statistics  ml/features_inseason_stats.py         *)
(*   - time-aware rating attachment  data-collection/ratings_loader.py     *)
(*                                                                         *)
(* Dates are whole days (the code parses calendar dates with               *)
(* pd.to_datetime), numbered from 0.                                       *)
(***************************************************************************)
EXTENDS Integers, Sequences, FiniteSets, TLC

(***************************************************************************)
(* Bounds of the model.                                                    *)
(***************************************************************************)
MaxDay == 4

Days == 0..MaxDay

\* number of rows an event table may hold on one day; 50 and 100 are the
\* sizes at which the two training floors are met
RowCounts == {0, 1, 50, 100}

\* values of the --initial-train-months and --test-window-days arguments
TrainMonths == {0, 1}

WindowDays == {1, 2}

Impls == {"kenpom", "odds"}

\* longest game sequence of one team
MaxGames == 4

\* a game is dated on the day of the team's previous game or the day after
DateGaps == {0, 1}

\* <<points_for, points_against>> of a game
Scores == {<<2, 1>>, <<1, 3>>}

\* the lookback_windows argument (the window sizes of the rolling columns)
LookbackWindows == {2, 5}

\* last day of the games and rating snapshots of a rating attachment
MaxRateDay == 2

RateDays == 0..MaxRateDay

\* most games in the table handed to attach_both_team_ratings
MaxEvents == 2

\* team names as they appear in the games table
HomeNames == {"Duke Blue Devils", "Elon"}

AwayNames == {"UNC"}

\* teams of the ratings table (canonical names)
RatedTeams == {"Duke", "North Carolina"}

VARIABLES
    impl,                 \* which walkforward_backtest implementation runs
    df,                   \* event table: day -> number of rows dated that day
    initial_train_months, \* argument of walkforward_backtest
    test_window_days,     \* argument of walkforward_backtest
    current_test_start,   \* loop variable
    period_num,           \* loop variable
    all_results,          \* all_results / all_periods, with each period's test data
    skip_log,             \* the "Skipping - insufficient training data" lines
    wf_pc,                \* "loop", "aggregate", "returned", "raised"
    wf_result             \* the returned dict, or the exception raised

VARIABLES
    team_games,           \* one team's games, sorted by date
    team_stats,           \* compute_team_rolling_stats(team_games)
    mutated_games,        \* team_games with the observation at mut_idx changed
    mutated_stats,        \* compute_team_rolling_stats(mutated_games)
    mut_idx,              \* position of the changed observation, 0 when none
    roll_pc               \* "input", "computed", "mutated"

roll_vars == <<team_games, team_stats, mutated_games, mutated_stats, mut_idx, roll_pc>>

VARIABLES
    ratings_df,           \* set of snapshots [team, rating_date, AdjEM]
    games_df,             \* sequence of games [date, home_team, away_team]
    result_df,            \* the table attach_team_ratings returned last
    rate_pc               \* "input", "home_done", "done"

rate_vars == <<ratings_df, games_df, result_df, rate_pc>>

wf_vars == <<impl, df, initial_train_months, test_window_days, current_test_start,
             period_num, all_results, skip_log, wf_pc, wf_result>>

VARIABLES
    american_odds,        \* argument of the odds functions
    is_favorite,          \* argument of decide_min_edge_for_odds
    model_prob,           \* the model's probability of the side
    required_edge,        \* decide_min_edge_for_odds(american_odds, is_favorite)
    backtest_edge,        \* the same, by the policy backtest's copy of the function
    implied_prob,         \* american_to_prob(american_odds)
    decimal_price,        \* american_to_decimal(american_odds)
    side_edge,            \* model_prob - implied_prob
    lookups               \* number of times the functions have been applied

odds_vars == <<american_odds, is_favorite, model_prob, required_edge, backtest_edge,
               implied_prob, decimal_price, side_edge, lookups>>

VARIABLES
    bets_df,              \* argument of add_kelly_stakes: rows [max_edge, bet_odds]
    bankroll,             \* argument of add_kelly_stakes
    kelly_fraction,       \* argument of add_kelly_stakes
    max_fraction,         \* argument of add_kelly_stakes
    staked_df,            \* the table add_kelly_stakes returned
    kelly_pc              \* "input", "done"

kelly_vars == <<bets_df, bankroll, kelly_fraction, max_fraction, staked_df, kelly_pc>>

VARIABLES
    model_spread,         \* arguments of calculate_market_edge
    close_spread,
    model_win_prob,
    home_implied_prob,
    away_implied_prob,
    edge_info,            \* the dict calculate_market_edge returned
    edge_pc               \* "input", "done"

edge_vars == <<model_spread, close_spread, model_win_prob, home_implied_prob,
               away_implied_prob, edge_info, edge_pc>>

VARIABLES
    args,                 \* command-line arguments [min_edge, kelly_fraction, bankroll]
    features_df,          \* games with odds and the model's home probability
    candidates,           \* what predict_variant_b returned
    longdog_log,          \* rows appended to variant_b_longdogs_raw.csv
    band_checked,         \* rows handed to decide_min_edge_for_odds
    skipped_by_odds,      \* generate_picks' three lists
    skipped_by_edge,
    filtered_bets,
    output_df,            \* the picks written and returned (<<>> when None)
    policy_stats,         \* the results dict of apply_odds_aware_policy
    policy_bets,          \* the filtered_df of apply_odds_aware_policy
    picks_pc              \* "input", "picked", "backtested"

picks_vars == <<args, features_df, candidates, longdog_log, band_checked,
                skipped_by_odds, skipped_by_edge, filtered_bets, output_df,
                policy_stats, policy_bets, picks_pc>>

\* the wagering sub-models (odds functions, Kelly sizer, market edge, picks)
bet_vars == <<odds_vars, kelly_vars, edge_vars, picks_vars>>

VARIABLES
    load_mode,            \* the mode argument of load_season_ratings
    ratings_file,         \* rows of the ratings CSV: [team, rating_date] (None: no column)
    load_games,           \* the games the loaded ratings are attached to
    load_ratings,         \* the DataFrame load_season_ratings returned
    load_log,             \* the lines load_season_ratings printed, in order
    load_result,          \* attach_team_ratings(load_games, load_ratings, 'home')
    load_pc               \* "input", "loaded", "raised", "attached"

load_vars == <<load_mode, ratings_file, load_games, load_ratings, load_log,
               load_result, load_pc>>

VARIABLES
    longdogs_csv,         \* the experiment CSV: day -> [graded, pending] row counts
    calib_args,           \* [test_ratio (percent), save_model]
    calib_df,             \* what load_longdogs_data returned: day -> row count
    calib_train,          \* train_df of split_by_date: day -> row count
    calib_test,           \* test_df of split_by_date: day -> row count
    calib_fitted,         \* the calibrators that have been fit
    calib_saved,          \* save_calibration_models has written the models
    calib_log,            \* the messages main printed
    calib_pc              \* "input", "insufficient", "complete", "raised"

calib_vars == <<longdogs_csv, calib_args, calib_df, calib_train, calib_test,
                calib_fitted, calib_saved, calib_log, calib_pc>>

VARIABLES
    frame_stage,          \* the stage function that is called
    frame_inputs,         \* the DataFrames passed to it, as they were at the call
    frame_after,          \* the same objects of the caller when the call has returned
    frame_output,         \* the DataFrame the stage returned
    frame_pc              \* "input", "returned"

frame_vars == <<frame_stage, frame_inputs, frame_after, frame_output, frame_pc>>

VARIABLES
    train_rows,           \* df of train_and_evaluate_variant: rows [date, feature, home_won]
    train_cutoff,         \* train_cutoff, as a day
    changed_rows,         \* the same table with one row dated on/after the cutoff changed
    train_split,          \* [X_train, y_train, X_test, y_test, train_idx, test_idx] of train_rows
    changed_split,        \* the same of changed_rows
    train_pc              \* "input", "split", "changed"

train_vars == <<train_rows, train_cutoff, changed_rows, train_split, changed_split,
                train_pc>>

\* the data-preparation sub-models (ratings loading, calibration, stage
\* calls, train/test preparation)
prep_vars == <<load_vars, calib_vars, frame_vars, train_vars>>

\* the temporal-integrity sub-models
core_vars == <<wf_vars, roll_vars, rate_vars>>

vars == <<wf_vars, roll_vars, rate_vars, bet_vars, prep_vars>>

(***************************************************************************)
(* Helpers on event tables (a table is a function day -> row count).       *)
(***************************************************************************)
RECURSIVE SumUpTo(_, _)
SumUpTo(t, d) == IF d < 0 THEN 0 ELSE t[d] + SumUpTo(t, d - 1)

\* len(table)
Len_df(t) == SumUpTo(t, MaxDay)

\* the days on which the table has rows
DatesOf(t) == {d \in Days : t[d] > 0}

SetMin(S) == CHOOSE x \in S : \A y \in S : x <= y

SetMax(S) == CHOOSE x \in S : \A y \in S : x >= y

Min2(a, b) == IF a <= b THEN a ELSE b

\* df['date'].min(), df['date'].max()
min_date == SetMin(DatesOf(df))

max_date == SetMax(DatesOf(df))

\* days per month in "timedelta(days=initial_train_months * 30)"
DAYS_PER_MONTH == 30

\* min_date + timedelta(days=initial_train_months * 30)
initial_train_end == min_date + initial_train_months * DAYS_PER_MONTH

(***************************************************************************)
(* split_train_test_by_date (walkforward_backtest.py) and split_train_test *)
(* (walkforward_backtest_odds.py): train = rows dated before test_start,   *)
(* test = rows with test_start <= date <= test_end.                        *)
(***************************************************************************)
\* a split whose training set also takes the rows dated test_start
split_train_leaky(t, test_start_date, test_end_date) ==
    [train |-> [d \in Days |-> IF d <= test_start_date THEN t[d] ELSE 0],
     test  |-> [d \in Days |-> IF d >= test_start_date /\ d <= test_end_date
                               THEN t[d] ELSE 0]]

split_train_test_by_date(t, test_start_date, test_end_date) ==
    [train |-> [d \in Days |-> IF d < test_start_date THEN t[d] ELSE 0],
     test  |-> [d \in Days |-> IF d >= test_start_date /\ d <= test_end_date
                               THEN t[d] ELSE 0]]

split_train_test(t, test_start, test_end) ==
    [train |-> [d \in Days |-> IF d < test_start THEN t[d] ELSE 0],
     test  |-> [d \in Days |-> IF d >= test_start /\ d <= test_end
                               THEN t[d] ELSE 0]]

\* the training floors: "if len(train_df) < 50" / "if len(train_df) < 100"
MIN_TRAIN_KENPOM == 50

MIN_TRAIN_ODDS == 100

MinTrainGames == IF impl = "kenpom" THEN MIN_TRAIN_KENPOM ELSE MIN_TRAIN_ODDS

current_test_end_stuck == Min2(current_test_start, max_date)

\* current_test_end = min(current_test_start + timedelta(days=test_window_days), max_date)
current_test_end == Min2(current_test_start + test_window_days, max_date)

\* the split of the current iteration
CurSplit == IF impl = "kenpom"
            THEN split_train_test_by_date(df, current_test_start, current_test_end)
            ELSE split_train_test(df, current_test_start, current_test_end)

train_df == CurSplit.train

test_df == CurSplit.test

(***************************************************************************)
(* walkforward_backtest: state after the set-up code before the loop.      *)
(***************************************************************************)
WFInit ==
    /\ impl \in Impls
    /\ df \in [Days -> RowCounts]
    /\ DatesOf(df) # {}
    /\ initial_train_months \in TrainMonths
    /\ test_window_days \in WindowDays
    /\ current_test_start = initial_train_end
    /\ period_num = 1
    /\ all_results = <<>>
    /\ skip_log = <<>>
    /\ wf_pc = "loop"
    /\ wf_result = [kind |-> "none"]

\* while current_test_start < max_date:  -- condition false, leave the loop
WFLoopExit ==
    /\ wf_pc = "loop"
    /\ ~(current_test_start < max_date)
    /\ wf_pc' = "aggregate"
    /\ UNCHANGED <<impl, df, initial_train_months, test_window_days,
                   current_test_start, period_num, all_results, skip_log, wf_result>>
    /\ UNCHANGED <<roll_vars, rate_vars, bet_vars, prep_vars>>

\* if len(test_df) == 0: break
WFBreakEmptyTest ==
    /\ wf_pc = "loop"
    /\ current_test_start < max_date
    /\ Len_df(test_df) = 0
    /\ wf_pc' = "aggregate"
    /\ UNCHANGED <<impl, df, initial_train_months, test_window_days,
                   current_test_start, period_num, all_results, skip_log, wf_result>>
    /\ UNCHANGED <<roll_vars, rate_vars, bet_vars, prep_vars>>

\* if len(train_df) < floor: print, advance, continue
WFSkipPeriod ==
    /\ wf_pc = "loop"
    /\ current_test_start < max_date
    /\ Len_df(test_df) # 0
    /\ Len_df(train_df) < MinTrainGames
    /\ skip_log' = Append(skip_log, [period |-> period_num,
                                     test_start |-> current_test_start,
                                     test_end |-> current_test_end,
                                     train_games |-> Len_df(train_df)])
    /\ current_test_start' = current_test_end
    /\ period_num' = period_num + 1
    /\ UNCHANGED <<impl, df, initial_train_months, test_window_days,
                   all_results, wf_pc, wf_result>>
    /\ UNCHANGED <<roll_vars, rate_vars, bet_vars, prep_vars>>

\* train_models(train_df), generate_predictions(test_df, ...), store, advance
WFEvaluatePeriod ==
    /\ wf_pc = "loop"
    /\ current_test_start < max_date
    /\ Len_df(test_df) # 0
    /\ Len_df(train_df) >= MinTrainGames
    /\ all_results' = Append(all_results,
                             [period |-> period_num,
                              train_end |-> current_test_start,
                              test_start |-> current_test_start,
                              test_end |-> current_test_end,
                              fit_on |-> train_df,
                              train_games |-> Len_df(train_df),
                              test_games |-> Len_df(test_df),
                              test_data |-> test_df])
    /\ current_test_start' = current_test_end
    /\ period_num' = period_num + 1
    /\ UNCHANGED <<impl, df, initial_train_months, test_window_days,
                   skip_log, wf_pc, wf_result>>
    /\ UNCHANGED <<roll_vars, rate_vars, bet_vars, prep_vars>>

\* the estimator raises in fit or predict: nothing in the loop catches it
WFEstimatorRaises ==
    /\ wf_pc = "loop"
    /\ current_test_start < max_date
    /\ Len_df(test_df) # 0
    /\ Len_df(train_df) >= MinTrainGames
    /\ wf_pc' = "raised"
    /\ wf_result' = [kind |-> "exception", error |-> "ValueError",
                     period |-> period_num]
    /\ UNCHANGED <<impl, df, initial_train_months, test_window_days,
                   current_test_start, period_num, all_results, skip_log>>
    /\ UNCHANGED <<roll_vars, rate_vars, bet_vars, prep_vars>>

RECURSIVE SumField(_, _)
SumField(s, k) == IF k = 0 THEN 0 ELSE s[k].test_games + SumField(s, k - 1)

\* sum(p['test_games'] for p in all_periods)
total_games == SumField(all_results, Len(all_results))

RECURSIVE ConcatTests(_, _)
ConcatTests(s, k) ==
    IF k = 0 THEN [d \in Days |-> 0]
    ELSE [d \in Days |-> s[k].test_data[d] + ConcatTests(s, k - 1)[d]]

\* pd.concat(test_periods): day -> number of prediction rows dated that day
test_data == ConcatTests(all_results, Len(all_results))

\* the aggregation after the loop and the return statement
WFAggregateReturn ==
    /\ wf_pc = "aggregate"
    /\ IF impl = "odds" /\ total_games = 0
       THEN \* total_spread_bets/total_games*100 with total_games = 0
            /\ wf_pc' = "raised"
            /\ wf_result' = [kind |-> "exception", error |-> "ZeroDivisionError",
                             period |-> 0]
       ELSE /\ wf_pc' = "returned"
            /\ wf_result' = [kind |-> "dict",
                             periods |-> Len(all_results),
                             total_games |-> total_games,
                             test_data |-> test_data]
    /\ UNCHANGED <<impl, df, initial_train_months, test_window_days,
                   current_test_start, period_num, all_results, skip_log>>
    /\ UNCHANGED <<roll_vars, rate_vars, bet_vars, prep_vars>>

WFNext ==
    \/ WFLoopExit
    \/ WFBreakEmptyTest
    \/ WFSkipPeriod
    \/ WFEvaluatePeriod
    \/ WFEstimatorRaises
    \/ WFAggregateReturn


(***************************************************************************)
(* Rolling in-season statistics (ml/features_inseason_stats.py).           *)
(*                                                                         *)
(* A team's games are a sequence sorted by date; a game is a record        *)
(*   [date, points_for, points_against, won, is_home].                     *)
(* A cell of a numeric column is [nan |-> BOOLEAN, s |-> Int, n |-> Nat]:  *)
(* NaN, or the rational s / n (a raw value v is [s |-> v, n |-> 1], a mean *)
(* of n values is their sum over n).                                       *)
(***************************************************************************)
NaN == [nan |-> TRUE, s |-> 0, n |-> 0]

Cell(v) == [nan |-> FALSE, s |-> v, n |-> 1]

\* possessions when the box-score columns are absent: "team_games['possessions'] = 70.0"
POSSESSIONS == 70

\* (points_for / possessions) * 100, kept as the numerator over POSSESSIONS
ORtg(g) == g.points_for * 100

\* (points_against / possessions) * 100, kept as the numerator over POSSESSIONS
DRtg(g) == g.points_against * 100

Pace(g) == POSSESSIONS

MoV(g) == g.points_for - g.points_against

Won(g) == g.won

\* the value of a metric in one game (an observation)
MetricValue(g, metric) ==
    CASE metric = "ORtg" -> ORtg(g)
      [] metric = "DRtg" -> DRtg(g)
      [] metric = "Pace" -> Pace(g)
      [] metric = "MoV" -> MoV(g)
      [] OTHER -> Won(g)

\* the raw column of a metric over a table of games
Column(games, metric) == [i \in 1..Len(games) |-> Cell(MetricValue(games[i], metric))]

\* a shift that is left out: the current row stays in its own window
NoShift(col) == col

\* Series.shift(1): every value moves down one row, the first row becomes NaN
Shift1(col) == [i \in 1..Len(col) |-> IF i = 1 THEN NaN ELSE col[i - 1]]

RECURSIVE SumCells(_, _, _)
SumCells(col, lo, hi) ==
    IF lo > hi THEN 0
    ELSE (IF col[hi].nan THEN 0 ELSE col[hi].s) + SumCells(col, lo, hi - 1)

CountCells(col, lo, hi) == Cardinality({j \in lo..hi : ~col[j].nan})

\* Series.rolling(window=w, min_periods=1).mean(): at row i the mean of the
\* non-NaN values in rows i-w+1..i, NaN when there is none
RollingMean(col, w) ==
    [i \in 1..Len(col) |->
        LET lo == IF i - w + 1 < 1 THEN 1 ELSE i - w + 1
            cnt == CountCells(col, lo, i)
        IN IF cnt < 1 THEN NaN
           ELSE [nan |-> FALSE, s |-> SumCells(col, lo, i), n |-> cnt]]

\* col.shift(1).rolling(window=w, min_periods=1).mean()
ShiftedRollingMean(games, metric, w) == RollingMean(Shift1(Column(games, metric)), w)

Metrics == {"ORtg", "DRtg", "Pace", "MoV", "WinPct"}

\* the rolling columns of one window loop: <<metric, w>> stands for f'{metric}_L{w}'
RollingColumns(games, lookback_windows) ==
    [c \in Metrics \X lookback_windows |-> ShiftedRollingMean(games, c[1], c[2])]

\* the positions (in order) of the games played at home / on the road
SplitPositions(games, home) ==
    LET P == {i \in 1..Len(games) : games[i].is_home = home}
        F[k \in 0..Cardinality(P)] ==
            IF k = 0 THEN <<>>
            ELSE LET prev == F[k - 1]
                     rest == {i \in P : \A j \in 1..Len(prev) : prev[j] < i}
                 IN Append(prev, SetMin(rest))
    IN F[Cardinality(P)]

\* window of the home/away splits: "rolling(window=5, min_periods=1)"
SPLIT_WINDOW == 5

\* home_games / away_games with their two split columns: rows [date, O, D]
SplitTable(games, home) ==
    LET pos == SplitPositions(games, home)
        sub == [k \in 1..Len(pos) |-> games[pos[k]]]
        O == ShiftedRollingMean(sub, "ORtg", SPLIT_WINDOW)
        D == ShiftedRollingMean(sub, "DRtg", SPLIT_WINDOW)
    IN [k \in 1..Len(pos) |-> [date |-> sub[k].date, O |-> O[k], D |-> D[k]]]

\* team_games.merge(right[['date', ...]], on='date', how='left'): every left
\* row is paired with every right row of the same date, in order; a left row
\* without a partner is kept once with NaN in the new columns
RECURSIVE MergeLeftOnDate(_, _, _)
MergeLeftOnDate(left, right, k) ==
    IF k > Len(left) THEN <<>>
    ELSE LET m == SelectSeq(right, LAMBDA r : r.date = left[k].date)
             rows == IF m = <<>>
                     THEN <<[row |-> left[k], O |-> NaN, D |-> NaN]>>
                     ELSE [j \in 1..Len(m) |-> [row |-> left[k], O |-> m[j].O, D |-> m[j].D]]
         IN rows \o MergeLeftOnDate(left, right, k + 1)

\* compute_team_rolling_stats(team_games, lookback_windows); idx is the position
\* of the row's game in the date-sorted input (sort_values keeps a sorted
\* table as it is)
compute_team_rolling_stats(games, lookback_windows) ==
    LET roll == RollingColumns(games, lookback_windows)
        base == [i \in 1..Len(games) |->
                    [idx |-> i, date |-> games[i].date, is_home |-> games[i].is_home,
                     points_for |-> games[i].points_for,
                     points_against |-> games[i].points_against,
                     won |-> games[i].won,
                     roll |-> [c \in Metrics \X lookback_windows |-> roll[c][i]]]]
        m1 == MergeLeftOnDate(base, SplitTable(games, TRUE), 1)
        with_home == [i \in 1..Len(m1) |->
                        m1[i].row @@ [ORtg_at_home_L5 |-> m1[i].O,
                                      DRtg_at_home_L5 |-> m1[i].D]]
        m2 == MergeLeftOnDate(with_home, SplitTable(games, FALSE), 1)
    IN [i \in 1..Len(m2) |->
            m2[i].row @@ [ORtg_on_road_L5 |-> m2[i].O,
                          DRtg_on_road_L5 |-> m2[i].D,
                          games_played |-> i - 1]]

\* build_inseason_stats: won = (points_for > points_against).astype(int)
MkGame(date, score, home) ==
    [date |-> date, points_for |-> score[1], points_against |-> score[2],
     won |-> IF score[1] > score[2] THEN 1 ELSE 0, is_home |-> home]

GameChoices == [gap : DateGaps, score : Scores, home : BOOLEAN]

RECURSIVE DateAt(_, _)
DateAt(c, i) == IF i = 1 THEN 0 ELSE DateAt(c, i - 1) + c[i].gap

MkGames(c) == [i \in 1..Len(c) |-> MkGame(DateAt(c, i), c[i].score, c[i].home)]

GameTables == {MkGames(c) : c \in UNION {[1..n -> GameChoices] : n \in 1..MaxGames}}

RollInit ==
    /\ team_games \in GameTables
    /\ team_stats = <<>>
    /\ mutated_games = <<>>
    /\ mutated_stats = <<>>
    /\ mut_idx = 0
    /\ roll_pc = "input"

\* no rolling-statistics run in this behaviour
RollIdle ==
    /\ team_games = <<>>
    /\ team_stats = <<>>
    /\ mutated_games = <<>>
    /\ mutated_stats = <<>>
    /\ mut_idx = 0
    /\ roll_pc = "idle"

\* team_stats = compute_team_rolling_stats(team_games, lookback_windows)
RollCompute ==
    /\ roll_pc = "input"
    /\ team_stats' = compute_team_rolling_stats(team_games, LookbackWindows)
    /\ roll_pc' = "computed"
    /\ UNCHANGED <<team_games, mutated_games, mutated_stats, mut_idx>>
    /\ UNCHANGED <<wf_vars, rate_vars, bet_vars, prep_vars>>

\* the same run on a table that differs in the scores of the game at position k
RollRecomputeMutated(k, score) ==
    /\ roll_pc = "computed"
    /\ k \in 1..Len(team_games)
    /\ score # <<team_games[k].points_for, team_games[k].points_against>>
    /\ LET g == MkGame(team_games[k].date, score, team_games[k].is_home)
           m == [team_games EXCEPT ![k] = g]
       IN /\ mutated_games' = m
          /\ mutated_stats' = compute_team_rolling_stats(m, LookbackWindows)
    /\ mut_idx' = k
    /\ roll_pc' = "mutated"
    /\ UNCHANGED <<team_games, team_stats>>
    /\ UNCHANGED <<wf_vars, rate_vars, bet_vars, prep_vars>>

RollNext ==
    \/ RollCompute
    \/ \E k \in 1..MaxGames, score \in Scores : RollRecomputeMutated(k, score)

WFIdle ==
    /\ impl = "none"
    /\ df = [d \in Days |-> 0]
    /\ initial_train_months = 0
    /\ test_window_days = 0
    /\ current_test_start = 0
    /\ period_num = 0
    /\ all_results = <<>>
    /\ skip_log = <<>>
    /\ wf_pc = "idle"
    /\ wf_result = [kind |-> "none"]

(***************************************************************************)
(* Time-aware rating attachment (data-collection/ratings_loader.py).       *)
(* None is <<>>, a present value v is <<v>>.                               *)
(***************************************************************************)
None == <<>>

Some(v) == <<v>>

\* normalize_team_name: strip a trailing mascot, then look the name up in
\* TEAM_DATABASE; a name the database does not know is returned stripped
normalize_team_name(team) ==
    CASE team = "Duke Blue Devils" -> "Duke"
      [] team = "Duke" -> "Duke"
      [] team = "UNC" -> "North Carolina"
      [] team = "North Carolina Tar Heels" -> "North Carolina"
      [] OTHER -> team

TeamNo(team) == IF team = "Duke" THEN 1 ELSE 2

\* the rating column of a snapshot: a value that identifies the snapshot
AdjEMOf(team, day) == 100 * TeamNo(team) + day

Snapshot(team, day) == [team |-> team, rating_date |-> day, AdjEM |-> AdjEMOf(team, day)]

\* a filter that forgets the game date
available_ratings_any(team_ratings, game_date) == team_ratings

\* team_ratings[team_ratings['rating_date'] <= game_date]
available_ratings(team_ratings, game_date) ==
    {r \in team_ratings : r.rating_date <= game_date}

\* available_ratings.sort_values('rating_date', ascending=False).iloc[0]
latest_rating(available) ==
    CHOOSE r \in available : \A q \in available : q.rating_date <= r.rating_date

\* an unmatched game that borrows the team's earliest snapshot
match_rating_fallback(ratings, team_name, game_date) ==
    LET team_ratings == {r \in ratings : r.team = team_name}
        available == available_ratings(team_ratings, game_date)
    IN IF team_ratings = {} THEN [AdjEM |-> None, rating_date |-> None]
       ELSE LET pick == IF available = {}
                        THEN CHOOSE r \in team_ratings :
                                \A q \in team_ratings : r.rating_date <= q.rating_date
                        ELSE latest_rating(available)
            IN [AdjEM |-> Some(pick.AdjEM), rating_date |-> Some(pick.rating_date)]

\* the body of the loop over the games: the dict appended to matched_ratings
match_rating(ratings, team_name, game_date) ==
    LET team_ratings == {r \in ratings : r.team = team_name}
        available == available_ratings(team_ratings, game_date)
    IN IF team_ratings = {} THEN [AdjEM |-> None, rating_date |-> None]
       ELSE IF available = {} THEN [AdjEM |-> None, rating_date |-> None]
       ELSE LET latest == latest_rating(available)
            IN [AdjEM |-> Some(latest.AdjEM), rating_date |-> Some(latest.rating_date)]

\* attach_team_ratings(games_df, ratings_df, side): one output row per game, in
\* order: the game's columns, the normalized team name and the matched columns
\* with the side's suffix
attach_team_ratings(games, ratings, side) ==
    [k \in 1..Len(games) |->
        LET game == games[k]
            raw == IF side = "home" THEN game.home_team ELSE game.away_team
            team_name == normalize_team_name(raw)
            m == match_rating(ratings, team_name, game.date)
        IN IF side = "home"
           THEN game @@ [home_team_normalized |-> team_name,
                         AdjEM_home |-> m.AdjEM, rating_date_home |-> m.rating_date]
           ELSE game @@ [away_team_normalized |-> team_name,
                         AdjEM_away |-> m.AdjEM, rating_date_away |-> m.rating_date]]

\* result_df['efficiency_diff'] = result_df['AdjEM_home'] - result_df['AdjEM_away']
efficiency_diff(row) ==
    IF row.AdjEM_home = None \/ row.AdjEM_away = None THEN None
    ELSE Some(row.AdjEM_home[1] - row.AdjEM_away[1])

GameRows == [date : RateDays, home_team : HomeNames, away_team : AwayNames]

\* a team has at most one snapshot per rating_date (consolidate_ratings_snapshots
\* drops duplicates of (team, rating_date); the other modes load one row per team)
RatingTables ==
    {{Snapshot(c[1], c[2]) : c \in S} : S \in SUBSET (RatedTeams \X RateDays)}

RateInit ==
    /\ ratings_df \in RatingTables
    /\ games_df \in UNION {[1..n -> GameRows] : n \in 1..MaxEvents}
    /\ result_df = <<>>
    /\ rate_pc = "input"

\* no rating attachment in this behaviour
RateIdle ==
    /\ ratings_df = {}
    /\ games_df = <<>>
    /\ result_df = <<>>
    /\ rate_pc = "idle"

\* attach_both_team_ratings, first call: attach_team_ratings(games_df, ..., 'home')
RateAttachHome ==
    /\ rate_pc = "input"
    /\ result_df' = attach_team_ratings(games_df, ratings_df, "home")
    /\ rate_pc' = "home_done"
    /\ UNCHANGED <<ratings_df, games_df>>
    /\ UNCHANGED <<wf_vars, roll_vars, bet_vars, prep_vars>>

\* attach_both_team_ratings, second call on the first call's result, and the
\* derived column
RateAttachAway ==
    /\ rate_pc = "home_done"
    /\ LET r == attach_team_ratings(result_df, ratings_df, "away")
       IN result_df' = [k \in 1..Len(r) |->
                            r[k] @@ [efficiency_diff |-> efficiency_diff(r[k])]]
    /\ rate_pc' = "done"
    /\ UNCHANGED <<ratings_df, games_df>>
    /\ UNCHANGED <<wf_vars, roll_vars, bet_vars, prep_vars>>

RateNext ==
    \/ RateAttachHome
    \/ RateAttachAway

(***************************************************************************)
(* Wagering: odds conversion, odds-band policy, Kelly sizing, best bet.    *)
(* The code computes with Python floats; the model computes the same       *)
(* expressions on exact fractions <<numerator, denominator>> in lowest     *)
(* terms with a positive denominator.                                      *)
(***************************************************************************)
Abs(x) == IF x < 0 THEN -x ELSE x

RECURSIVE GCD(_, _)
GCD(a, b) == IF b = 0 THEN a ELSE GCD(b, a % b)

\* the fraction n / d
Q(n, d) ==
    LET s == IF d < 0 THEN -1 ELSE 1
        g == GCD(Abs(n), Abs(d))
    IN <<(s * n) \div g, (s * d) \div g>>

QAdd(a, b) == Q(a[1] * b[2] + b[1] * a[2], a[2] * b[2])

QSub(a, b) == Q(a[1] * b[2] - b[1] * a[2], a[2] * b[2])

QMul(a, b) == Q(a[1] * b[1], a[2] * b[2])

QDiv(a, b) == Q(a[1] * b[2], a[2] * b[1])

QLt(a, b) == a[1] * b[2] < b[1] * a[2]

QLe(a, b) == a[1] * b[2] <= b[1] * a[2]

\* Python's min(a, b) and max(a, b)
QMin(a, b) == IF QLt(b, a) THEN b ELSE a

QMax(a, b) == IF QLt(a, b) THEN b ELSE a

\* a value given in hundredths (0.15 is Pct(15))
Pct(n) == Q(n, 100)

\* largest magnitude of the American odds considered
MaxOdds == 450

\* American odds are whole numbers; 0 is no price
OddsValues == ((0 - MaxOdds)..MaxOdds) \ {0}

\* a quoted price is at most -100 or at least +100
ValidOdds == {o \in OddsValues : o <= -100 \/ o >= 100}

\* model probabilities, in hundredths
ModelProbs == {25, 40, 65}

\* how often the functions are applied to one input
MaxLookups == 2

\* american_to_prob of markets_ncaabb.py; walkforward_backtest.py and
\* build_market_features define the same two branches
american_to_prob_swapped(odds) ==
    IF odds < 0
    THEN Q(100, Abs(odds) + 100)
    ELSE Q(Abs(odds), odds + 100)

american_to_prob(odds) ==
    IF odds < 0
    THEN Q(Abs(odds), Abs(odds) + 100)
    ELSE Q(100, odds + 100)

american_to_decimal_no_stake(odds) ==
    IF odds > 0
    THEN Q(odds, 100)
    ELSE QAdd(Q(100, Abs(odds)), Q(1, 1))

american_to_decimal(odds) ==
    IF odds > 0
    THEN QAdd(Q(odds, 100), Q(1, 1))
    ELSE QAdd(Q(100, Abs(odds)), Q(1, 1))

\* the odds-band policy of the picks generator; None is "skip this band"
decide_min_edge_closed_band(odds, is_fav) ==
    IF is_fav THEN Some(Pct(15))
    ELSE IF 100 <= odds /\ odds < 120 THEN Some(Pct(15))
    ELSE IF 120 <= odds /\ odds <= 140 THEN Some(Pct(15))
    ELSE IF 140 <= odds /\ odds < 160 THEN None
    ELSE IF 160 <= odds /\ odds < 180 THEN Some(Pct(13))
    ELSE IF 180 <= odds /\ odds < 200 THEN None
    ELSE IF 200 <= odds /\ odds < 250 THEN Some(Pct(0))
    ELSE IF 250 <= odds /\ odds < 400 THEN None
    ELSE Some(Pct(15))

decide_min_edge_for_odds(odds, is_fav) ==
    IF is_fav THEN Some(Pct(15))
    ELSE IF 100 <= odds /\ odds < 120 THEN Some(Pct(15))
    ELSE IF 120 <= odds /\ odds < 140 THEN Some(Pct(15))
    ELSE IF 140 <= odds /\ odds < 160 THEN None
    ELSE IF 160 <= odds /\ odds < 180 THEN Some(Pct(13))
    ELSE IF 180 <= odds /\ odds < 200 THEN None
    ELSE IF 200 <= odds /\ odds < 250 THEN Some(Pct(0))
    ELSE IF 250 <= odds /\ odds < 400 THEN None
    ELSE Some(Pct(15))

\* the policy of the backtest script: as the generator's, but odds of +400
\* and beyond are skipped
decide_min_edge_for_odds_backtest(odds, is_fav) ==
    IF is_fav THEN Some(Pct(15))
    ELSE IF 100 <= odds /\ odds < 120 THEN Some(Pct(15))
    ELSE IF 120 <= odds /\ odds < 140 THEN Some(Pct(15))
    ELSE IF 140 <= odds /\ odds < 160 THEN None
    ELSE IF 160 <= odds /\ odds < 180 THEN Some(Pct(13))
    ELSE IF 180 <= odds /\ odds < 200 THEN None
    ELSE IF 200 <= odds /\ odds < 250 THEN Some(Pct(0))
    ELSE IF 250 <= odds /\ odds < 400 THEN None
    ELSE IF odds >= 400 THEN None
    ELSE Some(Pct(15))

\* edge of a side: the model's probability minus the market's implied one
ml_edge(model_p, implied_p) == QSub(model_p, implied_p)

OddsInit ==
    /\ american_odds \in OddsValues
    /\ is_favorite \in BOOLEAN
    /\ model_prob \in {Pct(p) : p \in ModelProbs}
    /\ required_edge = None
    /\ backtest_edge = None
    /\ implied_prob = None
    /\ decimal_price = None
    /\ side_edge = None
    /\ lookups = 0

\* no odds lookup in this behaviour
OddsIdle ==
    /\ american_odds = 0
    /\ is_favorite = FALSE
    /\ model_prob = None
    /\ required_edge = None
    /\ backtest_edge = None
    /\ implied_prob = None
    /\ decimal_price = None
    /\ side_edge = None
    /\ lookups = -1

\* one evaluation of the odds functions on the input
OddsLookup ==
    /\ lookups >= 0
    /\ lookups < MaxLookups
    /\ required_edge' = decide_min_edge_for_odds(american_odds, is_favorite)
    /\ backtest_edge' = decide_min_edge_for_odds_backtest(american_odds, is_favorite)
    /\ implied_prob' = american_to_prob(american_odds)
    /\ decimal_price' = american_to_decimal(american_odds)
    /\ side_edge' = ml_edge(model_prob, american_to_prob(american_odds))
    /\ lookups' = lookups + 1
    /\ UNCHANGED <<american_odds, is_favorite, model_prob>>
    /\ UNCHANGED <<core_vars, kelly_vars, edge_vars, picks_vars, prep_vars>>

OddsNext == OddsLookup

(***************************************************************************)
(* Kelly sizer (ml/ncaabb_variant_b_model.py).                             *)
(***************************************************************************)
\* most rows of the table handed to add_kelly_stakes
MaxBets == 2

\* edges, in thousandths
KellyEdges == {-50, 0, 67, 150, 500}

KellyOdds == {-150, 130, 200}

\* values of kelly_fraction, max_fraction and bankroll
KellyFractions == {Pct(0), Pct(25), Pct(100)}

MaxFractions == {Pct(5), Pct(10)}

Bankrolls == {1006, 10000}

\* the conversion at the head of calculate_kelly_stake
kelly_decimal_odds_inverted(odds_american) ==
    IF odds_american < 0
    THEN QAdd(Q(1, 1), Q(Abs(odds_american), 100))
    ELSE QAdd(Q(1, 1), Q(100, odds_american))

kelly_decimal_odds(odds_american) ==
    IF odds_american < 0
    THEN QAdd(Q(1, 1), Q(100, Abs(odds_american)))
    ELSE QAdd(Q(1, 1), Q(odds_american, 100))

\* <<full_kelly, applied_kelly>>
calculate_kelly_stake_no_floor(edge, odds_american, k_fraction, m_fraction) ==
    LET decimal_odds == kelly_decimal_odds(odds_american)
        full_kelly == QDiv(edge, QSub(decimal_odds, Q(1, 1)))
        scaled == QMul(full_kelly, k_fraction)
        capped == QMin(scaled, m_fraction)
    IN <<full_kelly, capped>>

calculate_kelly_stake(edge, odds_american, k_fraction, m_fraction) ==
    LET decimal_odds == kelly_decimal_odds(odds_american)
        full_kelly == QDiv(edge, QSub(decimal_odds, Q(1, 1)))
        scaled == QMul(full_kelly, k_fraction)
        capped == QMin(scaled, m_fraction)
        floored == QMax(capped, Q(0, 1))
    IN <<full_kelly, floored>>

\* Series.round(0).astype(int): to the nearest whole number, halves to even
RoundHalfEven(q) ==
    LET fl == q[1] \div q[2]
        r == q[1] % q[2]
    IN IF 2 * r < q[2] THEN fl
       ELSE IF 2 * r > q[2] THEN fl + 1
       ELSE IF fl % 2 = 0 THEN fl ELSE fl + 1

add_kelly_stakes(bets, roll, k_fraction, m_fraction) ==
    [i \in 1..Len(bets) |->
        LET k == calculate_kelly_stake(bets[i].max_edge, bets[i].bet_odds,
                                       k_fraction, m_fraction)
        IN bets[i] @@ [kelly_full |-> k[1],
                       kelly_applied |-> k[2],
                       bet_size_dollars |->
                           RoundHalfEven(QMul(k[2], Q(roll, 1)))]]

KellyRows == {[max_edge |-> Q(e, 1000), bet_odds |-> o] :
                 e \in KellyEdges, o \in KellyOdds}

KellyInit ==
    /\ bets_df \in UNION {[1..n -> KellyRows] : n \in 1..MaxBets}
    /\ bankroll \in Bankrolls
    /\ kelly_fraction \in KellyFractions
    /\ max_fraction \in MaxFractions
    /\ staked_df = <<>>
    /\ kelly_pc = "input"

\* no Kelly sizing in this behaviour
KellyIdle ==
    /\ bets_df = <<>>
    /\ bankroll = 0
    /\ kelly_fraction = None
    /\ max_fraction = None
    /\ staked_df = <<>>
    /\ kelly_pc = "idle"

\* staked_df = add_kelly_stakes(bets_df, bankroll, kelly_fraction, max_fraction)
KellyAddStakes ==
    /\ kelly_pc = "input"
    /\ staked_df' = add_kelly_stakes(bets_df, bankroll, kelly_fraction, max_fraction)
    /\ kelly_pc' = "done"
    /\ UNCHANGED <<bets_df, bankroll, kelly_fraction, max_fraction>>
    /\ UNCHANGED <<core_vars, odds_vars, edge_vars, picks_vars, prep_vars>>

KellyNext == KellyAddStakes

(***************************************************************************)
(* Best bet of a game (ml/markets_ncaabb.py).  Spreads are in hundredths   *)
(* of a point and probabilities in hundredths, so that the code's          *)
(* comparisons of a spread edge with a probability edge are comparisons    *)
(* of whole numbers.                                                       *)
(***************************************************************************)
\* model and market spreads, hundredths of a point
ModelSpreads == {-450, -150, 0, 50, 250}

CloseSpreads == {-250, 50}

\* probabilities, hundredths
WinProbs == {30, 50, 70}

HomeImplied == {40, 50, 72}

AwayImplied == {30, 50, 62}

\* the spread edge must exceed 2 points to be considered
SPREAD_FLOOR == 200

calculate_market_edge_ml_first(m_spread, c_spread, win_prob, home_ip, away_ip) ==
    LET edge_spread == m_spread - c_spread
        home_edge == win_prob - home_ip
        away_edge == (100 - win_prob) - away_ip
        b0 == IF Abs(edge_spread) > SPREAD_FLOOR
              THEN IF edge_spread > 0
                   THEN [best_bet |-> Some("home_spread"), max_edge |-> edge_spread]
                   ELSE [best_bet |-> Some("away_spread"), max_edge |-> Abs(edge_spread)]
              ELSE [best_bet |-> None, max_edge |-> 0]
        b1 == IF home_edge > 0
              THEN [best_bet |-> Some("home_ml"), max_edge |-> home_edge]
              ELSE b0
        b2 == IF away_edge > b1.max_edge
              THEN [best_bet |-> Some("away_ml"), max_edge |-> away_edge]
              ELSE b1
    IN [edge_spread |-> edge_spread, home_edge |-> home_edge,
        away_edge |-> away_edge, best_bet |-> b2.best_bet, max_edge |-> b2.max_edge]

calculate_market_edge_floor_incl(m_spread, c_spread, win_prob, home_ip, away_ip) ==
    LET edge_spread == m_spread - c_spread
        home_edge == win_prob - home_ip
        away_edge == (100 - win_prob) - away_ip
        b0 == IF Abs(edge_spread) >= SPREAD_FLOOR
              THEN IF edge_spread > 0
                   THEN [best_bet |-> Some("home_spread"), max_edge |-> edge_spread]
                   ELSE [best_bet |-> Some("away_spread"), max_edge |-> Abs(edge_spread)]
              ELSE [best_bet |-> None, max_edge |-> 0]
        b1 == IF home_edge > b0.max_edge
              THEN [best_bet |-> Some("home_ml"), max_edge |-> home_edge]
              ELSE b0
        b2 == IF away_edge > b1.max_edge
              THEN [best_bet |-> Some("away_ml"), max_edge |-> away_edge]
              ELSE b1
    IN [edge_spread |-> edge_spread, home_edge |-> home_edge,
        away_edge |-> away_edge, best_bet |-> b2.best_bet, max_edge |-> b2.max_edge]

calculate_market_edge(m_spread, c_spread, win_prob, home_ip, away_ip) ==
    LET edge_spread == m_spread - c_spread
        home_edge == win_prob - home_ip
        away_edge == (100 - win_prob) - away_ip
        b0 == IF Abs(edge_spread) > SPREAD_FLOOR
              THEN IF edge_spread > 0
                   THEN [best_bet |-> Some("home_spread"), max_edge |-> edge_spread]
                   ELSE [best_bet |-> Some("away_spread"), max_edge |-> Abs(edge_spread)]
              ELSE [best_bet |-> None, max_edge |-> 0]
        b1 == IF home_edge > b0.max_edge
              THEN [best_bet |-> Some("home_ml"), max_edge |-> home_edge]
              ELSE b0
        b2 == IF away_edge > b1.max_edge
              THEN [best_bet |-> Some("away_ml"), max_edge |-> away_edge]
              ELSE b1
    IN [edge_spread |-> edge_spread, home_edge |-> home_edge,
        away_edge |-> away_edge, best_bet |-> b2.best_bet, max_edge |-> b2.max_edge]

EdgeInit ==
    /\ model_spread \in ModelSpreads
    /\ close_spread \in CloseSpreads
    /\ model_win_prob \in WinProbs
    /\ home_implied_prob \in HomeImplied
    /\ away_implied_prob \in AwayImplied
    /\ edge_info = None
    /\ edge_pc = "input"

\* no best-bet selection in this behaviour
EdgeIdle ==
    /\ model_spread = 0
    /\ close_spread = 0
    /\ model_win_prob = 0
    /\ home_implied_prob = 0
    /\ away_implied_prob = 0
    /\ edge_info = None
    /\ edge_pc = "idle"

\* one row of calculate_all_edges: edge_info = calculate_market_edge(...)
EdgeCalculate ==
    /\ edge_pc = "input"
    /\ edge_info' = calculate_market_edge(model_spread, close_spread, model_win_prob,
                                          home_implied_prob, away_implied_prob)
    /\ edge_pc' = "done"
    /\ UNCHANGED <<model_spread, close_spread, model_win_prob, home_implied_prob,
                   away_implied_prob>>
    /\ UNCHANGED <<core_vars, odds_vars, kelly_vars, picks_vars, prep_vars>>

EdgeNext == EdgeCalculate

(***************************************************************************)
(* Picks generator (scripts/ncaabb/generate_variant_b_picks.py) and the    *)
(* policy backtest (ml/experiments_ncaabb/backtest_odds_aware_policy.py).  *)
(* A row carries its index in the games table as id.                       *)
(***************************************************************************)
\* <<home_ml, away_ml>> of a game
GameOdds == {<<-250, 200>>, <<-180, 150>>, <<-150, 130>>, <<-600, 400>>}

\* the model's home-win probability, hundredths
HomeProbs == {10, 60, 90}

\* values of --min-edge (0.15 is the default), in hundredths
MinEdges == {0, 15}

\* odds at or beyond which a bet is a longshot
LONGDOG_ODDS == 400

\* max_fraction passed by generate_picks, in hundredths
PICKS_MAX_FRACTION == 10

\* --kelly-fraction default, in hundredths
PICKS_KELLY_FRACTION == 25

\* the columns predict_variant_b adds to one game
predicted_row(g) ==
    LET home_ip == american_to_prob(g.home_ml)
        away_ip == american_to_prob(g.away_ml)
        prob_home == g.model_prob_home
        prob_away == QSub(Q(1, 1), prob_home)
        edge_home == ml_edge(prob_home, home_ip)
        edge_away == ml_edge(prob_away, away_ip)
        side == IF QLt(edge_away, edge_home) THEN "home" ELSE "away"
    IN g @@ [edge_home |-> edge_home,
             edge_away |-> edge_away,
             max_edge |-> QMax(edge_home, edge_away),
             chosen_side |-> side,
             bet_odds |-> IF side = "home" THEN g.home_ml ELSE g.away_ml,
             bet_prob |-> IF side = "home" THEN prob_home ELSE prob_away,
             bet_implied_prob |-> IF side = "home" THEN home_ip ELSE away_ip]

\* predict_variant_b: the games whose best side reaches min_edge
predict_variant_b(games, min_edge) ==
    SelectSeq([i \in 1..Len(games) |-> predicted_row(games[i])],
              LAMBDA r : QLe(min_edge, r.max_edge))

longdogs_above(bets) == SelectSeq(bets, LAMBDA r : r.bet_odds > LONGDOG_ODDS)

\* bets_df[bets_df['bet_odds'] >= 400] and bets_df[bets_df['bet_odds'] < 400]
longdogs_of(bets) == SelectSeq(bets, LAMBDA r : r.bet_odds >= LONGDOG_ODDS)

core_picks_of(bets) == SelectSeq(bets, LAMBDA r : r.bet_odds < LONGDOG_ODDS)

\* the rows log_longdogs_to_experiment appends
log_longdogs_to_experiment(longdogs) ==
    [i \in 1..Len(longdogs) |->
        [id |-> longdogs[i].id,
         bet_side |-> longdogs[i].chosen_side,
         american_odds |-> longdogs[i].bet_odds,
         implied_prob_market |-> longdogs[i].bet_implied_prob,
         model_prob |-> longdogs[i].bet_prob,
         edge |-> longdogs[i].max_edge,
         outcome |-> None]]

band_decision_no_skip(required, edge) ==
    IF required # None /\ QLe(required[1], edge) THEN "qualified"
    ELSE "skipped_by_edge"

\* the if / elif / else on required_edge, in both filters
band_decision(required, edge) ==
    IF required = None THEN "skipped_by_odds"
    ELSE IF QLe(required[1], edge) THEN "qualified"
    ELSE "skipped_by_edge"

\* the list the loop of generate_picks puts a row on
picks_decision(r) ==
    band_decision(decide_min_edge_for_odds(r.bet_odds, r.bet_odds < 0), r.max_edge)

\* sort_values('max_edge', ascending=False)
RECURSIVE InsertByEdge(_, _)
InsertByEdge(r, sorted) ==
    IF sorted = <<>> THEN <<r>>
    ELSE IF QLe(Head(sorted).max_edge, r.max_edge) THEN <<r>> \o sorted
    ELSE <<Head(sorted)>> \o InsertByEdge(r, Tail(sorted))

RECURSIVE SortByEdgeDesc(_)
SortByEdgeDesc(rows) ==
    IF rows = <<>> THEN <<>>
    ELSE InsertByEdge(Head(rows), SortByEdgeDesc(Tail(rows)))

\* the columns of the picks file
format_output(rows) ==
    [i \in 1..Len(rows) |->
        [id |-> rows[i].id,
         side |-> rows[i].chosen_side,
         odds |-> rows[i].bet_odds,
         model_prob |-> rows[i].bet_prob,
         implied_prob |-> rows[i].bet_implied_prob,
         edge |-> rows[i].max_edge,
         kelly_full |-> rows[i].kelly_full,
         kelly_applied |-> rows[i].kelly_applied,
         bet_size_dollars |-> rows[i].bet_size_dollars,
         market |-> rows[i].chosen_side \o "_ml"]]

\* load_edges_data: a home and an away bet opportunity per game
load_edges_data(games) ==
    [k \in 1..(2 * Len(games)) |->
        LET r == predicted_row(games[(k + 1) \div 2])
            home == k % 2 = 1
            o == IF home THEN r.home_ml ELSE r.away_ml
        IN [id |-> k,
            game |-> r.id,
            bet_side |-> IF home THEN "home" ELSE "away",
            american_odds |-> o,
            edge |-> IF home THEN r.edge_home ELSE r.edge_away,
            is_favorite |-> o < 0]]

\* what the loop of apply_odds_aware_policy does with a row
policy_decision(r) ==
    IF r.american_odds >= LONGDOG_ODDS THEN "longdog"
    ELSE band_decision(decide_min_edge_for_odds_backtest(r.american_odds, r.is_favorite),
                       r.edge)

\* <<filtered_df, results>>
apply_odds_aware_policy(bets) ==
    LET count(d) == Len(SelectSeq(bets, LAMBDA r : policy_decision(r) = d))
    IN <<SelectSeq(bets, LAMBDA r : policy_decision(r) = "qualified"),
         [total_candidates |-> Len(bets),
          filtered_longdogs |-> count("longdog"),
          filtered_death_valleys |-> count("skipped_by_odds"),
          filtered_insufficient_edge |-> count("skipped_by_edge"),
          qualified_bets |-> count("qualified")]>>

GameRowsOf(n) ==
    {[i \in 1..n |-> [id |-> i,
                      home_ml |-> f[i][1][1],
                      away_ml |-> f[i][1][2],
                      model_prob_home |-> Pct(f[i][2])]] :
        f \in [1..n -> GameOdds \X HomeProbs]}

PicksInit ==
    /\ args \in [min_edge : {Pct(m) : m \in MinEdges},
                 kelly_fraction : {Pct(PICKS_KELLY_FRACTION)},
                 bankroll : Bankrolls]
    /\ features_df \in UNION {GameRowsOf(n) : n \in 1..MaxBets}
    /\ candidates = <<>>
    /\ longdog_log = <<>>
    /\ band_checked = <<>>
    /\ skipped_by_odds = <<>>
    /\ skipped_by_edge = <<>>
    /\ filtered_bets = <<>>
    /\ output_df = <<>>
    /\ policy_stats = None
    /\ policy_bets = <<>>
    /\ picks_pc = "input"

\* no picks run in this behaviour
PicksIdle ==
    /\ args = None
    /\ features_df = <<>>
    /\ candidates = <<>>
    /\ longdog_log = <<>>
    /\ band_checked = <<>>
    /\ skipped_by_odds = <<>>
    /\ skipped_by_edge = <<>>
    /\ filtered_bets = <<>>
    /\ output_df = <<>>
    /\ policy_stats = None
    /\ policy_bets = <<>>
    /\ picks_pc = "idle"

\* generate_picks from the predictions on: the longshot split, the odds-aware
\* filter, the stakes, the sort and the output
PicksGenerate ==
    /\ picks_pc = "input"
    /\ LET bets == predict_variant_b(features_df, args.min_edge)
           longdogs == longdogs_of(bets)
           core == core_picks_of(bets)
           on(d) == SelectSeq(core, LAMBDA r : picks_decision(r) = d)
           staked == add_kelly_stakes(on("qualified"), args.bankroll,
                                      args.kelly_fraction, Pct(PICKS_MAX_FRACTION))
       IN /\ candidates' = bets
          /\ longdog_log' = log_longdogs_to_experiment(longdogs)
          /\ band_checked' = core
          /\ skipped_by_odds' = on("skipped_by_odds")
          /\ skipped_by_edge' = on("skipped_by_edge")
          /\ filtered_bets' = on("qualified")
          /\ output_df' = format_output(SortByEdgeDesc(staked))
    /\ picks_pc' = "picked"
    /\ UNCHANGED <<args, features_df, policy_stats, policy_bets>>
    /\ UNCHANGED <<core_vars, odds_vars, kelly_vars, edge_vars, prep_vars>>

\* the policy backtest on the same games: load_edges_data, then
\* apply_odds_aware_policy
PolicyBacktest ==
    /\ picks_pc = "picked"
    /\ LET res == apply_odds_aware_policy(load_edges_data(features_df))
       IN /\ policy_bets' = res[1]
          /\ policy_stats' = res[2]
    /\ picks_pc' = "backtested"
    /\ UNCHANGED <<args, features_df, candidates, longdog_log, band_checked,
                   skipped_by_odds, skipped_by_edge, filtered_bets, output_df>>
    /\ UNCHANGED <<core_vars, odds_vars, kelly_vars, edge_vars, prep_vars>>

PicksNext ==
    \/ PicksGenerate
    \/ PolicyBacktest

(***************************************************************************)
(* Loading the ratings of a season (data-collection/ratings_loader.py,     *)
(* load_season_ratings) and attaching them.  Dates are day numbers; a      *)
(* printed line is [warn, text]: warn is TRUE for a line that opens with   *)
(* the warning sign, text names the line.                                  *)
(***************************************************************************)
LoadModes == {"season_end", "preseason_only", "dated_snapshots", "latest"}

\* preseason_dates.get(season, ...): 1 November, as a day number
PRESEASON_DATE == 0

\* season_start_dates.get(season, ...): the first game day of the season
SEASON_START_DATE == 1

\* the content of kenpom_ratings_{season}_dated.csv: one row per team and date
DatedFiles ==
    {{[team |-> c[1], rating_date |-> Some(c[2])] : c \in S} :
        S \in (SUBSET (RatedTeams \X RateDays)) \ {{}}}

\* the content of kenpom_ratings_{season}.csv: one row per team, no rating_date
SeasonFiles ==
    {{[team |-> t, rating_date |-> None] : t \in S} : S \in (SUBSET RatedTeams) \ {{}}}

\* df['rating_date'].nunique()
nunique_rating_date(ratings) == Cardinality({r.rating_date : r \in ratings})

Line(warn, text) == [warn |-> warn, text |-> text]

\* describe_ratings(df): the summary block, no warning in it
describe_ratings(ratings) ==
    <<Line(FALSE, "Ratings Summary"),
      [warn |-> FALSE, text |-> "Unique rating_dates",
       value |-> nunique_rating_date(ratings)]>>

\* the rows load_season_ratings returns for a valid mode
load_season_ratings_df(mode, file) ==
    CASE mode = "dated_snapshots" ->
             {Snapshot(r.team, r.rating_date[1]) : r \in file}
      [] mode = "preseason_only" ->
             {Snapshot(r.team, PRESEASON_DATE) : r \in file}
      [] OTHER ->
             {Snapshot(r.team, SEASON_START_DATE) : r \in file}

\* the lines load_season_ratings prints for a valid mode
load_season_ratings_log(mode, ratings) ==
    (CASE mode = "dated_snapshots" ->
              (IF nunique_rating_date(ratings) = 1
               THEN <<Line(TRUE, "WARNING: dated_snapshots mode but only 1 unique rating_date"),
                      Line(FALSE, "This is effectively the same as season_end mode")>>
               ELSE <<>>)
              \o <<Line(FALSE, "DATED_SNAPSHOTS MODE: Loaded time-stamped ratings"),
                   Line(FALSE, "Unique rating dates"),
                   Line(FALSE, "Date range"),
                   Line(FALSE, "Avg ratings per team")>>
       [] mode = "preseason_only" ->
              <<Line(FALSE, "PRESEASON_ONLY MODE: Using single preseason rating"),
                Line(FALSE, "All teams use rating_date = preseason_date"),
                Line(FALSE, "This is HONEST (no lookahead) but CRUDE")>>
       [] OTHER ->
              <<Line(TRUE, "SEASON_END MODE: Using end-of-season snapshot"),
                Line(FALSE, "rating_date set to season_start for all teams"),
                Line(FALSE, "This is LOOKAHEAD BIASED"),
                Line(FALSE, "Use preseason_only or dated_snapshots mode")>>)
    \o describe_ratings(ratings)

LoadInit ==
    /\ load_mode \in LoadModes
    /\ ratings_file \in IF load_mode = "dated_snapshots" THEN DatedFiles ELSE SeasonFiles
    /\ load_games \in [1..1 -> GameRows]
    /\ load_ratings = {}
    /\ load_log = <<>>
    /\ load_result = <<>>
    /\ load_pc = "input"

\* no ratings are loaded in this behaviour
LoadIdle ==
    /\ load_mode = "none"
    /\ ratings_file = {}
    /\ load_games = <<>>
    /\ load_ratings = {}
    /\ load_log = <<>>
    /\ load_result = <<>>
    /\ load_pc = "idle"

\* if mode not in [...]: raise ValueError
LoadInvalidMode ==
    /\ load_pc = "input"
    /\ load_mode \notin {"season_end", "preseason_only", "dated_snapshots"}
    /\ load_pc' = "raised"
    /\ UNCHANGED <<load_mode, ratings_file, load_games, load_ratings, load_log,
                   load_result>>
    /\ UNCHANGED <<core_vars, bet_vars, calib_vars, frame_vars, train_vars>>

\* load_season_ratings(season, mode) for a valid mode and an existing file
LoadSeasonRatings ==
    /\ load_pc = "input"
    /\ load_mode \in {"season_end", "preseason_only", "dated_snapshots"}
    /\ load_ratings' = load_season_ratings_df(load_mode, ratings_file)
    /\ load_log' = load_season_ratings_log(load_mode, load_ratings')
    /\ load_pc' = "loaded"
    /\ UNCHANGED <<load_mode, ratings_file, load_games, load_result>>
    /\ UNCHANGED <<core_vars, bet_vars, calib_vars, frame_vars, train_vars>>

\* attach_team_ratings(games_df, ratings_df, side='home')
LoadAttach ==
    /\ load_pc = "loaded"
    /\ load_result' = attach_team_ratings(load_games, load_ratings, "home")
    /\ load_pc' = "attached"
    /\ UNCHANGED <<load_mode, ratings_file, load_games, load_ratings, load_log>>
    /\ UNCHANGED <<core_vars, bet_vars, calib_vars, frame_vars, train_vars>>

LoadNext ==
    \/ LoadInvalidMode
    \/ LoadSeasonRatings
    \/ LoadAttach

(***************************************************************************)
(* Longshot calibration (ml/experiments_ncaabb/                            *)
(* underdog_longdogs_calibration.py).  A table is a function from the day  *)
(* to the number of rows of that day, the rows of a day being adjacent in  *)
(* the date-sorted frame.                                                  *)
(***************************************************************************)
MaxCalibDay == 2

CalibDays == 0..MaxCalibDay

\* rows of a day inside the odds range with an outcome
GradedCounts == {0, 1, 25, 49}

\* rows of a day without an outcome (games not played or not graded yet)
PendingCounts == {0, 1}

\* --test-ratio, in percent
TestRatios == {20, 50}

\* "if len(df) < 50"
MIN_CALIB_SAMPLES == 50

NoRows == [d \in CalibDays |-> 0]

RECURSIVE RowsUpTo(_, _)
RowsUpTo(t, d) == IF d < 0 THEN 0 ELSE t[d] + RowsUpTo(t, d - 1)

\* len(df)
CalibLen(t) == RowsUpTo(t, MaxCalibDay)

\* load_longdogs_data: the rows in the odds range whose outcome is present,
\* sorted by date
load_longdogs_data(csv) == [d \in CalibDays |-> csv[d].graded]

\* split_idx = int(len(df) * (1 - test_ratio))
split_idx(t, test_ratio) == (CalibLen(t) * (100 - test_ratio)) \div 100

\* split_by_date: train_df = df.iloc[:split_idx], test_df = df.iloc[split_idx:]
split_by_date(t, test_ratio) ==
    LET idx == split_idx(t, test_ratio)
        tr == [d \in CalibDays |->
                  LET before == RowsUpTo(t, d - 1)
                  IN IF before >= idx THEN 0
                     ELSE IF before + t[d] <= idx THEN t[d]
                     ELSE idx - before]
    IN [train |-> tr, test |-> [d \in CalibDays |-> t[d] - tr[d]]]

CalibInit ==
    /\ longdogs_csv \in [CalibDays -> [graded : GradedCounts, pending : PendingCounts]]
    /\ calib_args \in [test_ratio : TestRatios, save_model : BOOLEAN]
    /\ calib_df = NoRows
    /\ calib_train = NoRows
    /\ calib_test = NoRows
    /\ calib_fitted = {}
    /\ calib_saved = FALSE
    /\ calib_log = <<>>
    /\ calib_pc = "input"

\* no calibration run in this behaviour
CalibIdle ==
    /\ longdogs_csv = <<>>
    /\ calib_args = <<>>
    /\ calib_df = <<>>
    /\ calib_train = <<>>
    /\ calib_test = <<>>
    /\ calib_fitted = {}
    /\ calib_saved = FALSE
    /\ calib_log = <<>>
    /\ calib_pc = "idle"

\* load_longdogs_data on a file without a graded row in the odds range:
\* df['date'].min() is NaT and NaT.date() raises ValueError
CalibLoadRaises ==
    /\ calib_pc = "input"
    /\ CalibLen(load_longdogs_data(longdogs_csv)) = 0
    /\ calib_log' = <<"Longdog Calibration Training", "Loaded 0 longdog candidates">>
    /\ calib_pc' = "raised"
    /\ UNCHANGED <<longdogs_csv, calib_args, calib_df, calib_train, calib_test,
                   calib_fitted, calib_saved>>
    /\ UNCHANGED <<core_vars, bet_vars, load_vars, frame_vars, train_vars>>

\* main: "if len(df) < 50:" the warning and the return
CalibInsufficient ==
    /\ calib_pc = "input"
    /\ LET df0 == load_longdogs_data(longdogs_csv)
       IN /\ CalibLen(df0) > 0
          /\ CalibLen(df0) < MIN_CALIB_SAMPLES
          /\ calib_df' = df0
    /\ calib_log' = <<"Longdog Calibration Training", "Loaded longdog candidates",
                      "Warning: Only len(df) samples available",
                      "Need at least 50 samples for reliable calibration">>
    /\ calib_pc' = "insufficient"
    /\ UNCHANGED <<longdogs_csv, calib_args, calib_train, calib_test,
                   calib_fitted, calib_saved>>
    /\ UNCHANGED <<core_vars, bet_vars, load_vars, frame_vars, train_vars>>

\* main on 50 rows or more: split, fit both calibrators, evaluate, save on
\* request
CalibTrain ==
    /\ calib_pc = "input"
    /\ LET df0 == load_longdogs_data(longdogs_csv)
           s == split_by_date(df0, calib_args.test_ratio)
       IN /\ CalibLen(df0) >= MIN_CALIB_SAMPLES
          /\ calib_df' = df0
          /\ calib_train' = s.train
          /\ calib_test' = s.test
    /\ calib_fitted' = {"platt", "isotonic"}
    /\ calib_saved' = calib_args.save_model
    /\ calib_log' = <<"Longdog Calibration Training", "Loaded longdog candidates",
                      "Chronological split", "Platt Scaling Trained",
                      "Isotonic Regression Trained", "Calibration training complete">>
    /\ calib_pc' = "complete"
    /\ UNCHANGED <<longdogs_csv, calib_args>>
    /\ UNCHANGED <<core_vars, bet_vars, load_vars, frame_vars, train_vars>>

\* main on 50 rows or more when LogisticRegression.fit raises (a training set
\* with a single outcome class): nothing is fit or saved
CalibFitRaises ==
    /\ calib_pc = "input"
    /\ LET df0 == load_longdogs_data(longdogs_csv)
           s == split_by_date(df0, calib_args.test_ratio)
       IN /\ CalibLen(df0) >= MIN_CALIB_SAMPLES
          /\ calib_df' = df0
          /\ calib_train' = s.train
          /\ calib_test' = s.test
    /\ calib_log' = <<"Longdog Calibration Training", "Loaded longdog candidates",
                      "Chronological split">>
    /\ calib_pc' = "raised"
    /\ UNCHANGED <<longdogs_csv, calib_args, calib_fitted, calib_saved>>
    /\ UNCHANGED <<core_vars, bet_vars, load_vars, frame_vars, train_vars>>

CalibNext ==
    \/ CalibLoadRaises
    \/ CalibInsufficient
    \/ CalibTrain
    \/ CalibFitRaises

(***************************************************************************)
(* What the pipeline stages do to the DataFrames they are given.           *)
(* A DataFrame is [columns, date]; its date column is [dtype, values], a   *)
(* value being [kind, day]: the string of a day as read from a CSV, or the *)
(* Timestamp of that day.  A function that assigns to a column of its      *)
(* parameter writes the caller's object; a function that first rebinds the *)
(* parameter to a copy does not.                                           *)
(***************************************************************************)
MaxFrameRows == 2

FrameDays == {0, 1, 2}

Stages == {"build_inseason_stats", "merge_games_with_stats",
           "attach_team_ratings", "predict_variant_b"}

\* a date column as pd.read_csv gives it (strings, dtype object)
StrColumn(days) ==
    [dtype |-> "object",
     values |-> [i \in 1..Len(days) |-> [kind |-> "str", day |-> days[i]]]]

\* pd.to_datetime(column): the Timestamp of every value, dtype datetime64[ns]
to_datetime(col) ==
    [dtype |-> "datetime64[ns]",
     values |-> [i \in 1..Len(col.values) |->
                    [kind |-> "Timestamp", day |-> col.values[i].day]]]

\* df['date'] = column, on the object df names
SetDate(frame, col) == [frame EXCEPT !.date = col]

\* df.copy(): a new object with the same content
CopyOf(frame) == frame

\* added columns of a stage's result
WithColumns(frame, names) == [frame EXCEPT !.columns = @ \cup names]

\* build_inseason_stats(results_df): "results_df['date'] = pd.to_datetime(...)"
\* writes the caller's frame, "results_df = results_df.sort_values('date')"
\* then rebinds the name
build_inseason_stats(inputs) ==
    LET results_df == SetDate(inputs[1], to_datetime(inputs[1].date))
    IN [inputs |-> <<results_df>>,
        output |-> WithColumns(CopyOf(results_df),
                               {"home_ORtg_L5", "away_ORtg_L5", "home_games_played"})]

\* merge_games_with_stats(games_df, stats_df): both date columns are assigned
\* on the caller's frames; the result is built from row dicts
merge_games_with_stats(inputs) ==
    LET games == SetDate(inputs[1], to_datetime(inputs[1].date))
        stats == SetDate(inputs[2], to_datetime(inputs[2].date))
    IN [inputs |-> <<games, stats>>,
        output |-> WithColumns(CopyOf(games), {"home_ORtg_L5", "away_ORtg_L5"})]

\* attach_team_ratings(games_df, ratings_df): "games_df = games_df.copy()"
\* comes before the assignments; ratings_df is only read
attach_team_ratings_frames(inputs) ==
    LET games == SetDate(CopyOf(inputs[1]), to_datetime(inputs[1].date))
    IN [inputs |-> inputs,
        output |-> WithColumns(games, {"home_team_normalized", "AdjEM_home",
                                          "rating_date_home"})]

\* predict_variant_b(games_df): "df = games_df.copy()", columns added to df
predict_variant_b_frames(inputs) ==
    [inputs |-> inputs,
     output |-> WithColumns(CopyOf(inputs[1]),
                            {"model_prob_home", "model_prob_away", "edge_home",
                             "edge_away"})]

run_stage(stage, inputs) ==
    CASE stage = "build_inseason_stats" -> build_inseason_stats(inputs)
      [] stage = "merge_games_with_stats" -> merge_games_with_stats(inputs)
      [] stage = "attach_team_ratings" -> attach_team_ratings_frames(inputs)
      [] OTHER -> predict_variant_b_frames(inputs)

\* number of DataFrame arguments of a stage
Arity(stage) ==
    IF stage \in {"merge_games_with_stats", "attach_team_ratings"} THEN 2 ELSE 1

DayLists == UNION {[1..n -> FrameDays] : n \in 1..MaxFrameRows}

\* the frames a caller can pass: dates as read from a CSV, or already parsed
InputFrames ==
    {[columns |-> {"date", "home_team", "away_team"}, date |-> c] :
        c \in {StrColumn(d) : d \in DayLists}
              \cup {to_datetime(StrColumn(d)) : d \in DayLists}}

FrameInit ==
    /\ frame_stage \in Stages
    /\ frame_inputs \in [1..Arity(frame_stage) -> InputFrames]
    /\ frame_after = <<>>
    /\ frame_output = <<>>
    /\ frame_pc = "input"

\* no stage call in this behaviour
FrameIdle ==
    /\ frame_stage = "none"
    /\ frame_inputs = <<>>
    /\ frame_after = <<>>
    /\ frame_output = <<>>
    /\ frame_pc = "idle"

\* the call of the stage on the caller's frames
FrameCallStage ==
    /\ frame_pc = "input"
    /\ LET r == run_stage(frame_stage, frame_inputs)
       IN /\ frame_after' = r.inputs
          /\ frame_output' = r.output
    /\ frame_pc' = "returned"
    /\ UNCHANGED <<frame_stage, frame_inputs>>
    /\ UNCHANGED <<core_vars, bet_vars, load_vars, calib_vars, train_vars>>

FrameNext == FrameCallStage

(***************************************************************************)
(* The train/test preparation of train_and_evaluate_variant                *)
(* (ml/experiments_ncaabb/train_eval_model_variant.py), with one feature   *)
(* column.  A row is [date, feature, home_won]; a missing cell is None, a  *)
(* present one Some(v).  Cells of the feature matrix are exact fractions.  *)
(***************************************************************************)
MaxTrainRows == 2

TrainDates == {0, 1, 2}

Cutoffs == {1, 2}

FeatureCells == {None, Some(1), Some(5)}

OutcomeCells == {None, Some(0), Some(1)}

TrainRowSet == [date : TrainDates, feature : FeatureCells, home_won : OutcomeCells]

RECURSIVE SortedInsert(_, _)
SortedInsert(s, v) ==
    IF s = <<>> THEN <<v>>
    ELSE IF v <= Head(s) THEN <<v>> \o s
    ELSE <<Head(s)>> \o SortedInsert(Tail(s), v)

RECURSIVE SortValues(_)
SortValues(s) == IF s = <<>> THEN <<>> ELSE SortedInsert(SortValues(Tail(s)), Head(s))

\* Series.median(): the median of the values that are present, NaN (None)
\* when there is none
median(cells) ==
    LET present == SelectSeq(cells, LAMBDA c : c # None)
        v == SortValues([i \in 1..Len(present) |-> present[i][1]])
        n == Len(v)
    IN IF n = 0 THEN None
       ELSE IF n % 2 = 1 THEN Some(Q(v[(n + 1) \div 2], 1))
       ELSE Some(Q(v[n \div 2] + v[n \div 2 + 1], 2))

\* X.fillna(X.median()) followed by X.fillna(0)
fillna_median_then_zero(cells) ==
    LET m == median(cells)
    IN [i \in 1..Len(cells) |->
           IF cells[i] # None THEN Q(cells[i][1], 1)
           ELSE IF m # None THEN m[1]
           ELSE Q(0, 1)]

\* lines 216-240: the outcome filter, the imputed feature matrix, the masks
\* and the four parts of the split
train_test_split_by_cutoff(rows, cutoff) ==
    LET kept == SelectSeq(rows, LAMBDA r : r.home_won # None)
        X == fillna_median_then_zero([i \in 1..Len(kept) |-> kept[i].feature])
        rec == [i \in 1..Len(kept) |->
                   [date |-> kept[i].date, x |-> X[i], y |-> kept[i].home_won[1], i |-> i]]
        tr == SelectSeq(rec, LAMBDA r : r.date < cutoff)
        te == SelectSeq(rec, LAMBDA r : r.date >= cutoff)
    IN [n |-> Len(kept),
        X_train |-> [k \in 1..Len(tr) |-> tr[k].x],
        y_train |-> [k \in 1..Len(tr) |-> tr[k].y],
        X_test |-> [k \in 1..Len(te) |-> te[k].x],
        y_test |-> [k \in 1..Len(te) |-> te[k].y],
        train_idx |-> {tr[k].i : k \in 1..Len(tr)},
        test_idx |-> {te[k].i : k \in 1..Len(te)}]

TrainInit ==
    /\ train_rows \in UNION {[1..n -> TrainRowSet] : n \in 1..MaxTrainRows}
    /\ train_cutoff \in Cutoffs
    /\ changed_rows = <<>>
    /\ train_split = <<>>
    /\ changed_split = <<>>
    /\ train_pc = "input"

\* no training run in this behaviour
TrainIdle ==
    /\ train_rows = <<>>
    /\ train_cutoff = 0
    /\ changed_rows = <<>>
    /\ train_split = <<>>
    /\ changed_split = <<>>
    /\ train_pc = "idle"

\* train_and_evaluate_variant up to the split
TrainSplit ==
    /\ train_pc = "input"
    /\ train_split' = train_test_split_by_cutoff(train_rows, train_cutoff)
    /\ train_pc' = "split"
    /\ UNCHANGED <<train_rows, train_cutoff, changed_rows, changed_split>>
    /\ UNCHANGED <<core_vars, bet_vars, load_vars, calib_vars, frame_vars>>

\* the same run on a table whose row k, dated on or after the cutoff, has
\* another feature value
TrainSplitChanged(k, cell) ==
    /\ train_pc = "split"
    /\ k \in 1..Len(train_rows)
    /\ train_rows[k].date >= train_cutoff
    /\ cell # train_rows[k].feature
    /\ changed_rows' = [train_rows EXCEPT ![k].feature = cell]
    /\ changed_split' = train_test_split_by_cutoff(changed_rows', train_cutoff)
    /\ train_pc' = "changed"
    /\ UNCHANGED <<train_rows, train_cutoff, train_split>>
    /\ UNCHANGED <<core_vars, bet_vars, load_vars, calib_vars, frame_vars>>

TrainNext ==
    \/ TrainSplit
    \/ \E k \in 1..MaxTrainRows, cell \in FeatureCells : TrainSplitChanged(k, cell)

\* no data-preparation sub-model runs in this behaviour
PrepIdle == LoadIdle /\ CalibIdle /\ FrameIdle /\ TrainIdle

\* no wagering sub-model runs in this behaviour
BetIdle == OddsIdle /\ KellyIdle /\ EdgeIdle /\ PicksIdle

\* no temporal-integrity sub-model runs in this behaviour
CoreIdle == WFIdle /\ RollIdle /\ RateIdle

\* the odds functions applied to one price
InitOdds == OddsInit /\ CoreIdle /\ KellyIdle /\ EdgeIdle /\ PicksIdle /\ PrepIdle

SpecOdds == InitOdds /\ [][OddsNext]_vars

\* a Kelly sizing of a table of bets
InitKelly == KellyInit /\ CoreIdle /\ OddsIdle /\ EdgeIdle /\ PicksIdle /\ PrepIdle

SpecKelly == InitKelly /\ [][KellyNext]_vars

\* a best-bet selection for one game
InitEdge == EdgeInit /\ CoreIdle /\ OddsIdle /\ KellyIdle /\ PicksIdle /\ PrepIdle

SpecEdge == InitEdge /\ [][EdgeNext]_vars

\* a picks run and a policy backtest
InitPicks == PicksInit /\ CoreIdle /\ OddsIdle /\ KellyIdle /\ EdgeIdle /\ PrepIdle

SpecPicks == InitPicks /\ [][PicksNext]_vars

\* a ratings load followed by an attachment
InitLoad == LoadInit /\ CoreIdle /\ BetIdle /\ CalibIdle /\ FrameIdle /\ TrainIdle

SpecLoad == InitLoad /\ [][LoadNext]_vars

\* a calibration run
InitCalib == CalibInit /\ CoreIdle /\ BetIdle /\ LoadIdle /\ FrameIdle /\ TrainIdle

SpecCalib == InitCalib /\ [][CalibNext]_vars

\* a call of one pipeline stage
InitFrame == FrameInit /\ CoreIdle /\ BetIdle /\ LoadIdle /\ CalibIdle /\ TrainIdle

SpecFrame == InitFrame /\ [][FrameNext]_vars

\* a train/test preparation and its rerun on a changed table
InitTrain == TrainInit /\ CoreIdle /\ BetIdle /\ LoadIdle /\ CalibIdle /\ FrameIdle

SpecTrain == InitTrain /\ [][TrainNext]_vars

\* a walk-forward backtest run
InitWF == WFInit /\ RollIdle /\ RateIdle /\ BetIdle /\ PrepIdle

SpecWF == InitWF /\ [][WFNext]_vars

\* the same run, in which the interpreter keeps executing the function
SpecWFLive == InitWF /\ [][WFNext]_vars /\ WF_vars(WFNext)

\* a rolling-statistics run
InitRoll == RollInit /\ WFIdle /\ RateIdle /\ BetIdle /\ PrepIdle

SpecRoll == InitRoll /\ [][RollNext]_vars

\* a rating-attachment run
InitRate == RateInit /\ WFIdle /\ RollIdle /\ BetIdle /\ PrepIdle

SpecRate == InitRate /\ [][RateNext]_vars

(***************************************************************************)
(* Properties of the walk-forward backtests.                               *)
(***************************************************************************)
\* C1: the estimator of every evaluated period was fit only on rows dated
\* before the period's start, never on a row dated on or after it.
C1_TrainBeforeTestStart ==
    \A k \in 1..Len(all_results) : \A d \in Days :
        all_results[k].fit_on[d] > 0 => d < all_results[k].test_start

\* an estimator has been fit on a non-empty training set while the table
\* holds rows dated on its period's start and later
C1_Witness ==
    \E k \in 1..Len(all_results) :
        /\ all_results[k].train_games > 0
        /\ df[all_results[k].test_start] > 0
        /\ \E d \in Days : d > all_results[k].test_start /\ df[d] > 0

\* C4: the test set of every period is exactly the rows with
\* period.start <= date < period.end; a row dated period.end is not in it.
C4_TestSetHalfOpen ==
    \A k \in 1..Len(all_results) : \A d \in Days :
        all_results[k].test_data[d] =
            (IF all_results[k].test_start <= d /\ d < all_results[k].test_end
             THEN df[d] ELSE 0)

\* C5: no event is predicted more than once: the concatenated test
\* predictions hold at most as many rows of a day as the event table.
C5_EachEventPredictedOnce == \A d \in Days : test_data[d] <= df[d]

\* C6: the loop does not stop while events later than the current period
\* start remain.
C6_LoopRunsUntilExhausted ==
    [][(wf_pc = "loop" /\ wf_pc' = "aggregate")
        => ~\E d \in Days : d > current_test_start /\ df[d] > 0]_vars

\* C7: a period whose training set is below the floor is skipped and logged:
\* nothing is fit or predicted for it and the walk goes on with the next
\* period, which starts where this one ends.
C7_SmallTrainSkippedAndContinues ==
    [][(wf_pc = "loop" /\ current_test_start < max_date
        /\ Len_df(train_df) < MinTrainGames)
        => /\ all_results' = all_results
           /\ Len(skip_log') = Len(skip_log) + 1
           /\ wf_pc' = "loop"
           /\ current_test_start' = current_test_end]_vars

\* C8: an estimator failure in one period does not end the run.
C8_FailureAbortsOnlyPeriod ==
    ~(wf_pc = "raised" /\ wf_result.kind = "exception" /\ wf_result.error = "ValueError")

(***************************************************************************)
(* Properties of the rating attachment.                                    *)
(***************************************************************************)
\* the snapshots of a row's team (by side) dated on or before the game
Eligible(row, side) ==
    LET raw == IF side = "home" THEN row.home_team ELSE row.away_team
    IN {r \in ratings_df : r.team = normalize_team_name(raw) /\ r.rating_date <= row.date}

AttachedDate(row, side) ==
    IF side = "home" THEN row.rating_date_home ELSE row.rating_date_away

AttachedAdjEM(row, side) == IF side = "home" THEN row.AdjEM_home ELSE row.AdjEM_away

\* C3: for every event and side with an eligible snapshot, the attached rating
\* is the team's snapshot with the greatest rating_date <= event.date; the
\* rating date used is never later than the event.
C3_LatestSnapshotAsOf ==
    rate_pc = "done" =>
        \A k \in 1..Len(result_df) : \A side \in {"home", "away"} :
            LET row == result_df[k]
                el == Eligible(row, side)
            IN /\ AttachedDate(row, side) # None => AttachedDate(row, side)[1] <= row.date
               /\ el # {} =>
                    \E r \in el :
                        /\ \A q \in el : q.rating_date <= r.rating_date
                        /\ AttachedDate(row, side) = Some(r.rating_date)
                        /\ AttachedAdjEM(row, side) = Some(r.AdjEM)

\* a game whose home team has an older and a newer eligible snapshot and a
\* snapshot dated after the game; the newer eligible one is attached
C3_Witness ==
    /\ rate_pc = "done"
    /\ \E k \in 1..Len(result_df) :
          /\ Cardinality(Eligible(result_df[k], "home")) >= 2
          /\ \E r \in ratings_df :
                r.team = result_df[k].home_team_normalized
                /\ r.rating_date > result_df[k].date
          /\ result_df[k].rating_date_home # None
          /\ result_df[k].rating_date_away # None

\* C10: a side whose team has no snapshot dated on or before the event gets
\* null in every rating column, and the result has one row per input event,
\* in input order.
C10_UnmatchedIsNullRowKept ==
    rate_pc \in {"home_done", "done"} =>
        /\ Len(result_df) = Len(games_df)
        /\ \A k \in 1..Len(result_df) :
              /\ result_df[k].date = games_df[k].date
              /\ result_df[k].home_team = games_df[k].home_team
              /\ result_df[k].away_team = games_df[k].away_team
              /\ Eligible(result_df[k], "home") = {} =>
                    result_df[k].AdjEM_home = None /\ result_df[k].rating_date_home = None
              /\ (rate_pc = "done" /\ Eligible(result_df[k], "away") = {}) =>
                    result_df[k].AdjEM_away = None /\ result_df[k].rating_date_away = None

\* two games are attached; the first one's home team has only snapshots dated
\* after the game and gets nulls, the second one's home team is matched
C10_Witness ==
    /\ rate_pc = "done"
    /\ Len(result_df) = 2
    /\ Eligible(result_df[1], "home") = {}
    /\ \E r \in ratings_df : r.team = result_df[1].home_team_normalized
    /\ result_df[1].AdjEM_home = None
    /\ result_df[2].AdjEM_home # None

(***************************************************************************)
(* Properties of the rolling statistics.                                   *)
(***************************************************************************)
\* the feature columns of the output rows that belong to the game at position i
FeaturesAt(stats, i) ==
    LET rows == SelectSeq(stats, LAMBDA r : r.idx = i)
    IN [k \in 1..Len(rows) |->
            [roll |-> rows[k].roll,
             ORtg_at_home_L5 |-> rows[k].ORtg_at_home_L5,
             DRtg_at_home_L5 |-> rows[k].DRtg_at_home_L5,
             ORtg_on_road_L5 |-> rows[k].ORtg_on_road_L5,
             DRtg_on_road_L5 |-> rows[k].DRtg_on_road_L5]]

\* C2: every rolling feature emitted for the game at position i (all windows,
\* and the home/away L5 columns) is the same after the observation of any game
\* at a position >= i, the game itself included, has been changed.
C2_NoLeakage ==
    roll_pc = "mutated" =>
        \A i \in 1..mut_idx : FeaturesAt(team_stats, i) = FeaturesAt(mutated_stats, i)

RECURSIVE SumObs(_, _, _, _)
SumObs(games, metric, lo, hi) ==
    IF lo > hi THEN 0
    ELSE MetricValue(games[hi], metric) + SumObs(games, metric, lo, hi - 1)

\* the mean of the observations at the (1-based) positions max(1, i-w) .. i-1
WindowMean(games, metric, w, i) ==
    LET lo == IF i - w < 1 THEN 1 ELSE i - w
    IN IF i = 1 THEN NaN
       ELSE [nan |-> FALSE, s |-> SumObs(games, metric, lo, i - 1), n |-> i - lo]

\* C9: the window-w rolling feature of the game at 0-based position i is the
\* mean over exactly the observations at positions [max(0, i-w), i): over the i
\* prior observations when 0 < i < w, and NaN (not zero) at i = 0.
C9_WindowIsPriorGames ==
    roll_pc = "computed" =>
        \A k \in 1..Len(team_stats) : \A c \in Metrics \X LookbackWindows :
            team_stats[k].roll[c] = WindowMean(team_games, c[1], c[2], team_stats[k].idx)

\* a computed table in which a game with exactly two prior games has an L5 mean
\* over those two, a fourth game has an L2 mean that has dropped the first game,
\* and the first game has NaN
C9_Witness ==
    /\ roll_pc = "computed"
    /\ Len(team_games) >= 4
    /\ \E k \in 1..Len(team_stats) :
          /\ team_stats[k].idx = 3
          /\ team_stats[k].roll[<<"ORtg", 5>>].n = 2
          /\ ~team_stats[k].roll[<<"ORtg", 5>>].nan
    /\ \E k \in 1..Len(team_stats) :
          /\ team_stats[k].idx = 4
          /\ team_stats[k].roll[<<"ORtg", 2>>].n = 2
          /\ team_stats[k].roll[<<"ORtg", 2>>].s = ORtg(team_games[2]) + ORtg(team_games[3])
          /\ ORtg(team_games[1]) # ORtg(team_games[3])
    /\ team_stats[1].roll[<<"MoV", 2>>] = NaN

(***************************************************************************)
(* Properties of the picks generator and the odds-band policy.             *)
(***************************************************************************)
\* the ids of the rows of a table
IdsOf(rows) == {rows[k].id : k \in 1..Len(rows)}

\* C11: after generate_picks, a game's chosen side with odds below +400 is
\* a production pick exactly when decide_min_edge_for_odds gives its band a
\* threshold (not SKIP) and the side's edge is at least that threshold.
C11_AcceptedIffBandAndEdge ==
    picks_pc \in {"picked", "backtested"} =>
        \A i \in 1..Len(features_df) :
            LET r == predicted_row(features_df[i])
                req == decide_min_edge_for_odds(r.bet_odds, r.bet_odds < 0)
            IN r.bet_odds < LONGDOG_ODDS =>
                  ((r.id \in IdsOf(output_df))
                      <=> (req # None /\ QLe(req[1], r.max_edge)))

\* the threshold the band table gives an underdog at odds o >= 100
C12_Expected(o) ==
    CASE o \in 100..119 -> Some(Pct(15))
      [] o \in 120..139 -> Some(Pct(15))
      [] o \in 140..159 -> None
      [] o \in 160..179 -> Some(Pct(13))
      [] o \in 180..199 -> None
      [] o \in 200..249 -> Some(Pct(0))
      [] o \in 250..399 -> None
      [] o >= 400 -> Some(Pct(15))

\* C12: every evaluation of decide_min_edge_for_odds returns 0.15 for a
\* favorite and, for an underdog, the threshold of the band that holds the
\* odds, each boundary belonging to the band it opens; a repeated evaluation
\* on the same input returns the same decision.
C12_BandTable ==
    lookups > 0 =>
        /\ is_favorite => required_edge = Some(Pct(15))
        /\ (~is_favorite /\ american_odds >= 100) =>
               required_edge = C12_Expected(american_odds)

\* the boundary +160 has been looked up twice as an underdog price
C12_Witness ==
    /\ lookups = 2
    /\ ~is_favorite
    /\ american_odds = 160
    /\ required_edge = Some(Pct(13))

C14_StakeBoundedAndMonotone ==
    kelly_pc = "done" =>
        /\ \A i \in 1..Len(staked_df) :
               /\ 0 <= staked_df[i].bet_size_dollars
               /\ QLe(Q(staked_df[i].bet_size_dollars, 1),
                      QMul(max_fraction, Q(bankroll, 1)))
        /\ \A i, j \in 1..Len(staked_df) :
               (/\ staked_df[i].bet_odds = staked_df[j].bet_odds
                /\ QLe(staked_df[i].max_edge, staked_df[j].max_edge))
               => /\ QLe(staked_df[i].kelly_applied, staked_df[j].kelly_applied)
                  /\ staked_df[i].bet_size_dollars <= staked_df[j].bet_size_dollars

\* C15: a bet whose edge is zero or negative gets an applied Kelly fraction
\* of exactly 0 and a stake of 0 dollars, whatever its odds and the
\* kelly_fraction.
C15_NoEdgeNoStake ==
    kelly_pc = "done" =>
        \A i \in 1..Len(staked_df) :
            QLe(staked_df[i].max_edge, Q(0, 1)) =>
                /\ staked_df[i].kelly_applied = Q(0, 1)
                /\ staked_df[i].bet_size_dollars = 0

\* a bet with a negative edge, hence a negative full Kelly, was sized at a
\* positive kelly_fraction
C15_Witness ==
    /\ kelly_pc = "done"
    /\ QLt(Q(0, 1), kelly_fraction)
    /\ \E i \in 1..Len(staked_df) :
           /\ QLt(staked_df[i].max_edge, Q(0, 1))
           /\ QLt(staked_df[i].kelly_full, Q(0, 1))
           /\ staked_df[i].kelly_applied = Q(0, 1)

\* full Kelly times the multiplier, clamped to [0, cap]
C16_Clamped(full, mult, cap) ==
    LET x == QMul(full, mult)
    IN IF QLt(x, Q(0, 1)) THEN Q(0, 1)
       ELSE IF QLt(cap, x) THEN cap
       ELSE x

\* C16: for every sized bet, full Kelly is edge / (d - 1) with d - 1 = 100/|f|
\* for a favorite and u/100 for an underdog, and the applied fraction is full
\* Kelly times kelly_fraction clamped to [0, max_fraction]; odds +200 with
\* edge 0.067 give full Kelly 0.0335 and, at a quarter, 0.008375.
C16_KellyFormula ==
    kelly_pc = "done" =>
        \A i \in 1..Len(staked_df) :
            LET r == staked_df[i]
            IN /\ r.bet_odds < 0 =>
                      QMul(r.kelly_full, Q(100, 1)) = QMul(r.max_edge, Q(Abs(r.bet_odds), 1))
               /\ r.bet_odds > 0 =>
                      QMul(r.kelly_full, Q(r.bet_odds, 1)) = QMul(r.max_edge, Q(100, 1))
               /\ r.kelly_applied = C16_Clamped(r.kelly_full, kelly_fraction, max_fraction)
               /\ (r.bet_odds = 200 /\ r.max_edge = Q(67, 1000)) =>
                      /\ r.kelly_full = Q(335, 10000)
                      /\ kelly_fraction = Pct(25) => r.kelly_applied = Q(8375, 1000000)

\* the bet at +200 with edge 0.067 was sized at quarter Kelly
C16_Witness ==
    /\ kelly_pc = "done"
    /\ kelly_fraction = Pct(25)
    /\ \E i \in 1..Len(staked_df) :
           /\ staked_df[i].bet_odds = 200
           /\ staked_df[i].max_edge = Q(67, 1000)
           /\ staked_df[i].kelly_applied = Q(8375, 1000000)

(***************************************************************************)
(* Properties of the best-bet selection and the odds conversion.           *)
(***************************************************************************)
\* the candidates that clear the floor, with their edges: a spread side
\* whose edge exceeds 2 points, a moneyline side whose edge is positive
C17_Clearing ==
    LET es == model_spread - close_spread
        he == model_win_prob - home_implied_prob
        ae == (100 - model_win_prob) - away_implied_prob
    IN {c \in {<<"home_spread", es>>, <<"away_spread", 0 - es>>} : c[2] > 200}
         \cup {c \in {<<"home_ml", he>>, <<"away_ml", ae>>} : c[2] > 0}

\* C17: calculate_market_edge recommends nothing exactly when no candidate
\* clears the floor, and otherwise recommends a clearing candidate whose
\* edge is the largest among the clearing candidates.
C17_BestBetIsLargestClearing ==
    edge_pc = "done" =>
        /\ edge_info.best_bet = None <=> C17_Clearing = {}
        /\ edge_info.best_bet # None =>
               /\ <<edge_info.best_bet[1], edge_info.max_edge>> \in C17_Clearing
               /\ \A c \in C17_Clearing : c[2] <= edge_info.max_edge

\* a game whose spread edge is exactly 2 points and whose moneyline edges
\* are not positive got no recommendation
C17_Witness ==
    /\ edge_pc = "done"
    /\ Abs(model_spread - close_spread) = 200
    /\ edge_info.home_edge <= 0
    /\ edge_info.away_edge <= 0
    /\ edge_info.best_bet = None

\* C18: the implied probability of negative odds f is |f| / (|f| + 100),
\* that of positive odds u is 100 / (u + 100); it is strictly between 0 and
\* 1, and the side's edge is the model probability minus it.
C18_ImpliedProbability ==
    lookups > 0 =>
        /\ american_odds < 0 =>
               implied_prob[1] * (Abs(american_odds) + 100)
                   = Abs(american_odds) * implied_prob[2]
        /\ american_odds > 0 =>
               implied_prob[1] * (american_odds + 100) = 100 * implied_prob[2]
        /\ 0 < implied_prob[1]
        /\ implied_prob[1] < implied_prob[2]
        /\ QAdd(side_edge, implied_prob) = model_prob

\* a favorite at -150 was converted to 0.6
C18_Witness ==
    /\ lookups > 0
    /\ american_odds = -150
    /\ implied_prob = Q(3, 5)
    /\ model_prob = Pct(65)
    /\ side_edge = Pct(5)

\* C19 as stated: for valid odds, no other valid odds have the same implied
\* probability, and implied probability times decimal odds is 1.
C19_RoundTripInjective ==
    (lookups > 0 /\ american_odds \in ValidOdds) =>
        /\ \A o \in ValidOdds :
               american_to_prob(o) = implied_prob => o = american_odds
        /\ QMul(implied_prob, decimal_price) = Q(1, 1)

\* C19 amended: for valid odds, implied probability times decimal odds is 1,
\* and no other valid odds have the same implied probability except that
\* -100 and +100, the same even-money price, both have 0.5.
C19_RoundTripUpToEvenMoney ==
    (lookups > 0 /\ american_odds \in ValidOdds) =>
        /\ \A o \in ValidOdds :
               american_to_prob(o) = implied_prob =>
                   \/ o = american_odds
                   \/ (Abs(o) = 100 /\ Abs(american_odds) = 100)
        /\ QMul(implied_prob, decimal_price) = Q(1, 1)

\* even money quoted as -100 was converted to 0.5 and to decimal odds 2
C19_Witness ==
    /\ lookups > 0
    /\ american_odds = -100
    /\ implied_prob = Q(1, 2)
    /\ decimal_price = Q(2, 1)

\* the underdog odds of the SKIP bands
C20_SkipBand(o) == o \in (140..159) \cup (180..199) \cup (250..399)

\* C20: generate_picks puts every candidate on exactly one of its four
\* lists (longshot log, skipped by odds, skipped by edge, qualified) and
\* apply_odds_aware_policy counts every candidate under exactly one of its
\* four counters; a candidate in a SKIP band is under "skipped by odds" /
\* "death valleys", never under insufficient edge.
C20_SkipDistinctFromLowEdge ==
    /\ picks_pc \in {"picked", "backtested"} =>
        /\ Len(longdog_log) + Len(skipped_by_odds) + Len(skipped_by_edge)
               + Len(filtered_bets) = Len(candidates)
        /\ IdsOf(longdog_log) \cup IdsOf(skipped_by_odds) \cup IdsOf(skipped_by_edge)
               \cup IdsOf(filtered_bets) = IdsOf(candidates)
        /\ \A k \in 1..Len(skipped_by_edge) : ~C20_SkipBand(skipped_by_edge[k].bet_odds)
        /\ \A k \in 1..Len(candidates) :
               C20_SkipBand(candidates[k].bet_odds) =>
                   candidates[k].id \in IdsOf(skipped_by_odds)
    /\ picks_pc = "backtested" =>
        LET bets == load_edges_data(features_df)
        IN /\ policy_stats.total_candidates = 2 * Len(features_df)
           /\ policy_stats.filtered_longdogs + policy_stats.filtered_death_valleys
                  + policy_stats.filtered_insufficient_edge + policy_stats.qualified_bets
                  = policy_stats.total_candidates
           /\ policy_stats.filtered_death_valleys
                  = Cardinality({k \in 1..Len(bets) : C20_SkipBand(bets[k].american_odds)})
           /\ policy_stats.qualified_bets = Len(policy_bets)
           /\ \A k \in 1..Len(policy_bets) : ~C20_SkipBand(policy_bets[k].american_odds)

\* a candidate at +150 with edge 0.5 was skipped by its band, while another
\* bet opportunity was counted as insufficient edge
C20_Witness ==
    /\ picks_pc = "backtested"
    /\ \E k \in 1..Len(skipped_by_odds) :
           /\ skipped_by_odds[k].bet_odds = 150
           /\ skipped_by_odds[k].max_edge = Pct(50)
    /\ policy_stats.filtered_death_valleys > 0
    /\ policy_stats.filtered_insufficient_edge > 0

(***************************************************************************)
(* Properties of the two copies of decide_min_edge_for_odds.               *)
(***************************************************************************)
\* C26: the decision of generate_variant_b_picks.decide_min_edge_for_odds
\* and of backtest_odds_aware_policy.decide_min_edge_for_odds is the same
\* for every odds value and favourite flag, underdog odds of +400 and above
\* included.
C26_SameDecision ==
    lookups > 0 => required_edge = backtest_edge

(***************************************************************************)
(* Properties of the end of the walk-forward run.                          *)
(***************************************************************************)
\* C28: a run over a non-empty table that evaluated no period (every period
\* skipped, or the loop never entered) ends by returning its summary with
\* zero games, in both implementations; it does not raise.
C28_NoPeriodStillReturns ==
    (/\ wf_pc \in {"returned", "raised"}
     /\ all_results = <<>>
     /\ ~(wf_result.kind = "exception" /\ wf_result.error = "ValueError"))
        => /\ wf_pc = "returned"
           /\ wf_result.kind = "dict"
           /\ wf_result.periods = 0
           /\ wf_result.total_games = 0

\* ceil(a / b) for b > 0, and 0 when a <= 0
CeilDiv(a, b) == IF a <= 0 THEN 0 ELSE (a + b - 1) \div b

\* the claimed bound on the number of periods of a run
C29_MaxPeriods == CeilDiv(max_date - initial_train_end, test_window_days)

\* C29: every iteration of the loop, evaluated or skipped, moves
\* current_test_start strictly forward; the number of iterations never
\* exceeds ceil((max_date - initial_train_end) / test_window_days); and the
\* run leaves the loop.
C29_LoopTerminates ==
    /\ [][period_num' # period_num =>
              /\ period_num' = period_num + 1
              /\ current_test_start' > current_test_start]_vars
    /\ [](wf_pc # "idle" => period_num - 1 <= C29_MaxPeriods)
    /\ [](wf_pc # "idle" => <>(wf_pc \in {"returned", "raised"}))

\* a run of three iterations that has returned
C29_Witness ==
    /\ wf_pc = "returned"
    /\ period_num = 4
    /\ Len(skip_log) + Len(all_results) = 3

(***************************************************************************)
(* Properties of the best bet of calculate_market_edge.                    *)
(***************************************************************************)
\* C30: with moneyline edges within [-1, 1], a spread edge of more than two
\* points makes best_bet a spread side (away_spread when the edge is
\* negative); a moneyline side is returned only when |edge_spread| <= 2;
\* and max_edge is 0 exactly when best_bet is None.
C30_SpreadDominates ==
    (edge_pc = "done" /\ Abs(edge_info.home_edge) <= 100
                      /\ Abs(edge_info.away_edge) <= 100) =>
        /\ Abs(edge_info.edge_spread) > SPREAD_FLOOR =>
               edge_info.best_bet = IF edge_info.edge_spread > 0
                                    THEN Some("home_spread")
                                    ELSE Some("away_spread")
        /\ edge_info.best_bet \in {Some("home_ml"), Some("away_ml")} =>
               Abs(edge_info.edge_spread) <= SPREAD_FLOOR
        /\ (edge_info.max_edge = 0) <=> (edge_info.best_bet = None)

\* a spread edge of -3 points with a positive home moneyline edge: the
\* best bet is the away spread
C30_Witness ==
    /\ edge_pc = "done"
    /\ edge_info.edge_spread < -SPREAD_FLOOR
    /\ edge_info.home_edge > 0
    /\ edge_info.best_bet = Some("away_spread")

(***************************************************************************)
(* Properties of the L5 window of the rolling features.                    *)
(***************************************************************************)
\* the positions of the games dated strictly before the game at position i
StrictlyEarlier(games, i) == {j \in 1..Len(games) : games[j].date < games[i].date}

\* the mean of a metric over the last w games dated strictly before game i
DatedWindowMean(games, metric, w, i) ==
    LET E == StrictlyEarlier(games, i)
        W == {j \in E : Cardinality({e \in E : e > j}) < w}
        F[k \in 0..Len(games)] ==
            IF k = 0 THEN 0
            ELSE F[k - 1] + (IF k \in W THEN MetricValue(games[k], metric) ELSE 0)
    IN IF W = {} THEN NaN
       ELSE [nan |-> FALSE, s |-> F[Len(games)], n |-> Cardinality(W)]

\* C25: every game that contributes to an L5 rolling feature of a game is
\* dated strictly before that game (so the game is never in its own window),
\* also when the team has two games on one date: the L5 value is the mean
\* over the last five games of strictly earlier date, and it never counts
\* more games than the team has played before that date.
C25_WindowStrictlyEarlier ==
    roll_pc = "computed" =>
        \A k \in 1..Len(team_stats) : \A m \in Metrics :
            LET i == team_stats[k].idx
                cell == team_stats[k].roll[<<m, SPLIT_WINDOW>>]
            IN /\ cell.n <= Cardinality(StrictlyEarlier(team_games, i))
               /\ cell = DatedWindowMean(team_games, m, SPLIT_WINDOW, i)

(***************************************************************************)
(* Properties of the ratings loader.                                       *)
(***************************************************************************)
\* C21: whenever the loaded rating set has a single distinct rating_date,
\* the loader has printed a warning line, whatever the mode (season_end,
\* preseason_only, dated_snapshots), and the snapshot is attached to every
\* game of a rated team dated on or after it.
C21_SingleDateWarned ==
    (load_pc \in {"loaded", "attached"} /\ nunique_rating_date(load_ratings) = 1) =>
        /\ \E k \in 1..Len(load_log) : load_log[k].warn
        /\ load_pc = "attached" =>
               \A k \in 1..Len(load_result) : \A r \in load_ratings :
                   (/\ r.team = load_result[k].home_team_normalized
                    /\ r.rating_date <= load_result[k].date)
                       => /\ load_result[k].rating_date_home = Some(r.rating_date)
                          /\ load_result[k].AdjEM_home = Some(r.AdjEM)

(***************************************************************************)
(* Properties of the calibration run.                                      *)
(***************************************************************************)
\* C22: the calibration split is strictly chronological: every training row
\* is dated strictly before every test row, so the rows of one date are
\* never on both sides of the split; and the split is the one the date
\* order and the ratio determine.
C22_StrictlyChronological ==
    calib_pc = "complete" =>
        /\ \A d1, d2 \in CalibDays :
               (calib_train[d1] > 0 /\ calib_test[d2] > 0) => d1 < d2
        /\ \A d \in CalibDays : calib_train[d] + calib_test[d] = calib_df[d]
        /\ CalibLen(calib_train) = split_idx(calib_df, calib_args.test_ratio)

C24_InputsUnchanged ==
    frame_pc = "returned" => frame_after = frame_inputs

(***************************************************************************)
(* Properties of the train/test preparation.                               *)
(***************************************************************************)
\* C27: the training matrix (after imputation) and the training labels are
\* the same when the feature value of a row dated on or after the cutoff is
\* changed; the training and the test rows are disjoint and together are
\* all the rows.
C27_TrainIndependentOfLaterRows ==
    /\ train_pc = "changed" =>
           /\ changed_split.X_train = train_split.X_train
           /\ changed_split.y_train = train_split.y_train
    /\ train_pc \in {"split", "changed"} =>
           /\ train_split.train_idx \cap train_split.test_idx = {}
           /\ train_split.train_idx \cup train_split.test_idx = 1..train_split.n

====
